---------------------------- MODULE Spec2Model ----------------------------
(***************************************************************************)
(* HIRI protocol, Milestone 1 ("The Verifiable Atom"): the harness of       *)
(* HIRI_Milestones v1.3 as a state machine.                                 *)
(*                                                                         *)
(* Strings are sequences of one-character strings, so that parsing,        *)
(* splitting and serialisation are computed character by character.        *)
(***************************************************************************)
EXTENDS Integers, Sequences, FiniteSets, TLC

VARIABLES
    uriStr,     \* URI module: the string at hand (NoStr when there is none)
    uriObj,     \* URI module: the HiriURI at hand (NoObj when there is none)
    uriErr,     \* URI module: "none", or the error the last call threw
    uriOrig,    \* URI module: the value the current run of calls started from
    uriHist,    \* URI module: the calls made since that value was given
    algos,      \* HashRegistry.algos: Map<string, HashAlgorithm>
    regLog,     \* the algorithms passed to register, in call order
    regOut,     \* the outcome of the last call on the registry
    mpc,        \* manifest protocol: "idle", "built", "tampered", "verified", "failed"
    mErr,       \* "none", or the error that made construction fail
    mKey,       \* the number of the keypair that signed (0 when there is none)
    mContent,   \* the prepared content the manifest was built for
    mSigned,    \* the manifest as the builder produced it
    received,   \* the manifest at hand, as a verifier receives it
    tamper,     \* "none", or what was altered in the manifest at hand
    signBytes,  \* the bytes that were handed to Signer.sign
    verifyKey,  \* the number of the keypair whose public key verify was given
    verifyBytes,\* the bytes that were handed to Signer.verify
    verifyOut,  \* the outcome of verification
    genesisOut, \* "none", or what isGenesisValid returned, "true" or "false"
    cpc,        \* canonicalization: "idle", "given", "done"
    docA,       \* the document given
    docB,       \* the same document after the edits made to a copy of it
    docEdits,   \* the edits made to the copy, in order: what kind, and where
    canonA,     \* the outcome of canonicalize(docA)
    canonB,     \* the outcome of canonicalize(docB)
    spc,        \* Signer: "idle", "signed", "verified"
    sigSigned,  \* Signer: what sign was given, and the signature it returned
    sigGiven,   \* Signer: what verify was given
    sigOut,     \* Signer: the outcome of verify
    kpc,        \* Key Document: "idle", "built", "edited", "validated"
    kdKey,      \* the number of the keypair the Key Document was built for
    kdBuilt,    \* the Key Document as the builder produced it
    kdGiven,    \* the Key Document at hand, as a verifier receives it
    kdEdit,     \* what was altered in the Key Document at hand
    kdOut,      \* the outcome of its validation
    apc,        \* authority derivation: "idle", "derived", "built", "parsed"
    aCalls,     \* the calls of derive made, in order: what was given, what came back
    aGiven,     \* what buildURI was given
    aBuilt,     \* the HiriURI that buildURI returned
    aParsed,    \* the outcome of HiriURI.parse on the text of the URI
    vpc,        \* position of the callers of verify
    vfySigned,  \* the signature block the callers share
    vfyGiven,   \* the arguments every caller passes to verify
    vfyCalls,   \* per caller: position, arguments taken, results got
    opc,        \* whether the engine has been given its signing key
    outKey,     \* the signing key, by number
    outSignature, \* the signature block last returned by sign
    outManifest, \* the signed manifest last built
    outKeyDocument, \* the signed KeyDocument last built
    hpc,        \* position of the two builds from one content
    hContent,   \* the prepared content both manifests are built from
    hFirst,     \* the first build: key, version, chain link, timestamp, manifest
    hSecond,    \* the second build, the same way
    produced,   \* the contents and manifests created and updated, oldest first
    hashCall,   \* the hash call in flight: position, arguments, the algorithm it holds, result
    atCall      \* the mapping of the registry when the call was made

authVars == <<apc, aCalls, aGiven, aBuilt, aParsed>>
vfyVars == <<vpc, vfySigned, vfyGiven, vfyCalls>>
outVars == <<opc, outKey, outSignature, outManifest, outKeyDocument>>
chVars == <<hpc, hContent, hFirst, hSecond>>
lifeVars == <<produced>>
pendVars == <<hashCall, atCall>>
kdVars == <<kpc, kdKey, kdBuilt, kdGiven, kdEdit, kdOut>>
sgnVars == <<spc, sigSigned, sigGiven, sigOut>>
canVars == <<cpc, docA, docB, docEdits, canonA, canonB>>
uriVars == <<uriStr, uriObj, uriErr, uriOrig, uriHist>>
regVars == <<algos, regLog, regOut>>
manVars == <<mpc, mErr, mKey, mContent, mSigned, received, tamper, signBytes,
             verifyKey, verifyBytes, verifyOut, genesisOut>>

\* What the actions of each part leave alone: the variables of the other
\* parts.
outsideURI == <<regVars, manVars, canVars, sgnVars, kdVars, authVars, vfyVars, outVars, chVars, lifeVars, pendVars>>
outsideRegistry == <<uriVars, manVars, canVars, sgnVars, kdVars, authVars, vfyVars, outVars, chVars, lifeVars, pendVars>>
outsideManifest == <<uriVars, regVars, canVars, sgnVars, kdVars, authVars, vfyVars, outVars, chVars, lifeVars, pendVars>>
outsideSigner == <<uriVars, regVars, manVars, canVars, kdVars, authVars, vfyVars, outVars, chVars, lifeVars, pendVars>>
outsideKeyDocument == <<uriVars, regVars, manVars, canVars, sgnVars, authVars, vfyVars, outVars, chVars, lifeVars, pendVars>>
outsideCanon == <<uriVars, regVars, manVars, sgnVars, kdVars, authVars, vfyVars, outVars, chVars, lifeVars, pendVars>>
outsideAuthority == <<uriVars, regVars, manVars, canVars, sgnVars, kdVars, vfyVars, outVars, chVars, lifeVars, pendVars>>
outsideVerifyCalls == <<uriVars, regVars, manVars, canVars, sgnVars, kdVars, authVars, outVars, chVars, lifeVars, pendVars>>
outsideOutputs == <<uriVars, regVars, manVars, canVars, sgnVars, kdVars, authVars, vfyVars, chVars, lifeVars, pendVars>>
outsideContentHash == <<uriVars, regVars, manVars, canVars, sgnVars, kdVars, authVars, vfyVars, outVars, lifeVars, pendVars>>
outsideLifecycle == <<uriVars, regVars, manVars, canVars, sgnVars, kdVars, authVars, vfyVars, outVars, chVars, pendVars>>
outsidePendingHash == <<uriVars, regVars, manVars, canVars, sgnVars, kdVars, authVars, vfyVars, outVars, chVars, lifeVars>>
vars == <<uriStr, uriObj, uriErr, uriOrig, uriHist, algos, regLog, regOut,
          mpc, mErr, mKey, mContent, mSigned, received, tamper, signBytes,
          verifyKey, verifyBytes, verifyOut, genesisOut,
          cpc, docA, docB, docEdits, canonA, canonB,
          spc, sigSigned, sigGiven, sigOut,
          kpc, kdKey, kdBuilt, kdGiven, kdEdit, kdOut,
          apc, aCalls, aGiven, aBuilt, aParsed,
          vpc, vfySigned, vfyGiven, vfyCalls,
          opc, outKey, outSignature, outManifest, outKeyDocument,
          hpc, hContent, hFirst, hSecond,
          produced,
          hashCall, atCall>>

---------------------------------------------------------------------------
(* Bounds *)

\* Longest text that follows the scheme prefix of a string given to parse.
MaxRest == 6

\* Implementations that announce the prefix "sha256".
NumImpls == 2

\* Longest text that follows the prefix of a string given to resolve.
MaxDigestRest == 2

\* Calls of register in one run.
MaxRegistrations == 3

\* Keypairs the application generates.
NumKeys == 2

\* Highest version number a manifest is built with.
MaxVersion == 2

\* Most edits made to the copy of a document before both are canonicalized.
MaxEdits == 3

\* Number of instants at which a Key Document is built.
MaxTimestamp == 5

\* Most calls of derive before a URI is built.
MaxDeriveCalls == 2
MaxVerifyCalls == 2
MaxUpdates == 2

---------------------------------------------------------------------------
(* Strings *)

RECURSIVE IndexOfFrom(_, _, _)
\* String.prototype.indexOf(c, from), 1-based; 0 when c does not occur.
IndexOfFrom(s, c, from) ==
    IF from > Len(s) THEN 0
    ELSE IF s[from] = c THEN from
    ELSE IndexOfFrom(s, c, from + 1)

IndexOf(s, c) == IndexOfFrom(s, c, 1)

StartsWith(s, p) == Len(s) >= Len(p) /\ SubSeq(s, 1, Len(p)) = p

Drop(s, n) == SubSeq(s, n + 1, Len(s))

Contains(s, c) == \E i \in 1..Len(s) : s[i] = c

\* All sequences over alphabet A of length at most n.
SeqsUpTo(A, n) == UNION {[1..k -> A] : k \in 0..n}

---------------------------------------------------------------------------
(* 1.2 HIRI URI scheme: class HiriURI *)

SLASH == "/"
LF == "\n"
CR == "\r"

\* The characters the regular expression's "." does not match.
LineTerminators == {LF, CR}

\* The literal the pattern starts with: hiri://
HIRI_SCHEME == <<"h", "i", "r", "i", ":", "/", "/">>

NoStr == <<"<", "n", "o", "n", "e", ">">>
NoObj == [authority |-> NoStr, type |-> NoStr, identifier |-> NoStr]

\* new HiriURI(authority, type, identifier): the constructor stores its
\* arguments and validates nothing.
HiriURI(authority, type, identifier) ==
    [authority |-> authority, type |-> type, identifier |-> identifier]

\* The pattern with ([^\/]+) as its third group: an identifier that stops at
\* a path separator.
HiriURI_pattern_match_NoSlashInIdentifier(uri) ==
    IF ~StartsWith(uri, HIRI_SCHEME) THEN <<>>
    ELSE
        LET r1 == Drop(uri, Len(HIRI_SCHEME))
            i1 == IndexOf(r1, SLASH)
            r2 == Drop(r1, i1)
            i2 == IndexOf(r2, SLASH)
            g3 == Drop(r2, i2)
        IN  IF i1 <= 1 \/ i2 <= 1 \/ g3 = <<>> \/ Contains(g3, SLASH)
                \/ \E c \in LineTerminators : Contains(g3, c)
            THEN <<>>
            ELSE <<SubSeq(r1, 1, i1 - 1), SubSeq(r2, 1, i2 - 1), g3>>

\* The pattern with ([^\/]*) as its second group: a type that may be empty.
HiriURI_pattern_match_EmptyType(uri) ==
    IF ~StartsWith(uri, HIRI_SCHEME) THEN <<>>
    ELSE
        LET r1 == Drop(uri, Len(HIRI_SCHEME))
            i1 == IndexOf(r1, SLASH)
            r2 == Drop(r1, i1)
            i2 == IndexOf(r2, SLASH)
            g3 == Drop(r2, i2)
        IN  IF i1 <= 1 \/ i2 < 1 \/ g3 = <<>>
                \/ \E c \in LineTerminators : Contains(g3, c)
            THEN <<>>
            ELSE <<SubSeq(r1, 1, i1 - 1), SubSeq(r2, 1, i2 - 1), g3>>

\* HiriURI.pattern = /^hiri:\/\/([^\/]+)\/([^\/]+)\/(.+)$/ , matched as the
\* regular expression engine does: the literal prefix at the start of the
\* input, a greedy run of non-slash characters, a slash, a second greedy
\* run, a slash, and one or more characters other than line terminators up
\* to the end of the input.  The result is the match array <<g1, g2, g3>>,
\* or <<>> for null (no match).
HiriURI_pattern_match(uri) ==
    IF ~StartsWith(uri, HIRI_SCHEME) THEN <<>>
    ELSE
        LET r1 == Drop(uri, Len(HIRI_SCHEME))
            i1 == IndexOf(r1, SLASH)
        IN  IF i1 <= 1 THEN <<>>
            ELSE
                LET g1 == SubSeq(r1, 1, i1 - 1)
                    r2 == Drop(r1, i1)
                    i2 == IndexOf(r2, SLASH)
                IN  IF i2 <= 1 THEN <<>>
                    ELSE
                        LET g2 == SubSeq(r2, 1, i2 - 1)
                            g3 == Drop(r2, i2)
                        IN  IF g3 = <<>> \/ \E c \in LineTerminators : Contains(g3, c)
                            THEN <<>>
                            ELSE <<g1, g2, g3>>

\* static parse(uri): throws Error("Invalid HIRI URI: ...") when there is no
\* match, else builds the HiriURI from the three groups.
HiriURI_parse(uri) ==
    LET match == HiriURI_pattern_match(uri)
    IN  IF match = <<>>
        THEN [ok |-> FALSE, error |-> "InvalidURI", value |-> NoObj]
        ELSE [ok |-> TRUE, error |-> "none",
              value |-> HiriURI(match[1], match[2], match[3])]

\* toString() with the type segment left out of the template.
HiriURI_toString_NoType(id) ==
    HIRI_SCHEME \o id.authority \o <<SLASH>> \o id.identifier

\* toString(): `hiri://${authority}/${type}/${identifier}`
HiriURI_toString(id) ==
    HIRI_SCHEME \o id.authority \o <<SLASH>> \o id.type \o <<SLASH>> \o id.identifier

---------------------------------------------------------------------------
(* Inputs of the URI module *)

\* What a caller may put in front of the rest of a string.
UriPrefixes ==
    { HIRI_SCHEME,
      <<>>,
      <<"h", "i", "r", "i", ":", "/">>,
      <<"H", "I", "R", "I", ":", "/", "/">>,
      <<"x">> \o HIRI_SCHEME }

UriAlphabet == {"a", SLASH, LF}

UriInputs == {p \o r : p \in UriPrefixes, r \in SeqsUpTo(UriAlphabet, MaxRest)}

\* Constructor arguments: empty, plain, with a path separator, with a line
\* terminator.
UriComponents ==
    { <<>>, <<"a">>, <<"a", "b">>, <<"a", SLASH, "b">>, <<SLASH>>, <<"a", LF>>,
      <<"k", "e", "y", ":", "x">>, <<"m", "#", "k">> }

---------------------------------------------------------------------------
(* URI module: calls *)

LastCall(h) == IF h = <<>> THEN "given" ELSE h[Len(h)]

InitURI ==
    /\ uriStr = NoStr
    /\ uriObj = NoObj
    /\ uriErr = "none"
    /\ uriOrig = [kind |-> "none", str |-> NoStr, obj |-> NoObj]
    /\ uriHist = <<>>

\* A caller holds a string.
UriInput(s) ==
    /\ uriOrig.kind = "none"
    /\ uriStr' = s
    /\ uriObj' = NoObj
    /\ uriErr' = "none"
    /\ uriOrig' = [kind |-> "str", str |-> s, obj |-> NoObj]
    /\ uriHist' = <<>>
    /\ UNCHANGED outsideURI

\* new HiriURI(a, t, i)
UriNew(a, t, i) ==
    /\ uriOrig.kind = "none"
    /\ uriObj' = HiriURI(a, t, i)
    /\ uriStr' = NoStr
    /\ uriErr' = "none"
    /\ uriOrig' = [kind |-> "obj", str |-> NoStr, obj |-> HiriURI(a, t, i)]
    /\ uriHist' = <<>>
    /\ UNCHANGED outsideURI

\* HiriURI.parse(uriStr)
UriParse ==
    /\ uriErr = "none"
    /\ uriOrig.kind # "none"
    /\ uriStr # NoStr
    /\ Len(uriHist) < 2
    /\ LastCall(uriHist) \in {"given", "toString"}
    /\ LET r == HiriURI_parse(uriStr)
       IN  /\ uriObj' = r.value
           /\ uriErr' = r.error
    /\ uriHist' = Append(uriHist, "parse")
    /\ UNCHANGED <<uriStr, uriOrig>>
    /\ UNCHANGED outsideURI

\* uriObj.toString()
UriToString ==
    /\ uriErr = "none"
    /\ uriObj # NoObj
    /\ Len(uriHist) < 2
    /\ LastCall(uriHist) \in {"given", "parse"}
    /\ uriStr' = HiriURI_toString(uriObj)
    /\ uriHist' = Append(uriHist, "toString")
    /\ UNCHANGED <<uriObj, uriErr, uriOrig>>
    /\ UNCHANGED outsideURI

NextURI ==
    \/ \E s \in UriInputs : UriInput(s)
    \/ \E a \in UriComponents, t \in UriComponents, i \in UriComponents : UriNew(a, t, i)
    \/ UriParse
    \/ UriToString

---------------------------------------------------------------------------
(* 1.1 Hash algorithm interface and registry: class HashRegistry *)

COLON == ":"

\* "sha256"
SHA256 == <<"s", "h", "a", "2", "5", "6">>
\* "blake3"
BLAKE3 == <<"b", "l", "a", "k", "e", "3">>

\* HashAlgorithm instances a composing application may register: the
\* SHA-256 implementation of step 3a, further implementations that announce
\* the same prefix, and implementations of other prefixes.
HashAlgorithm(prefix, impl) == [prefix |-> prefix, impl |-> impl]

NoAlgo == HashAlgorithm(NoStr, 0)

Algorithms ==
    {HashAlgorithm(SHA256, i) : i \in 1..NumImpls}
        \cup {HashAlgorithm(BLAKE3, 1), HashAlgorithm(<<"s", COLON, "3">>, 1)}

\* prefixedHash.split(":")[0]: the text before the first separator, the
\* whole text when there is none.
SplitFirst(str, sep) ==
    LET i == IndexOf(str, sep)
    IN  IF i = 0 THEN str ELSE SubSeq(str, 1, i - 1)

\* A set that forgets every other key.
MapSet_ForgetsOthers(map, key, value) == [k \in {key} |-> value]

\* Map.prototype.set(key, value)
MapSet(map, key, value) ==
    [k \in DOMAIN map \cup {key} |-> IF k = key THEN value ELSE map[k]]

\* register that keeps the algorithm a prefix already has.
HashRegistry_register_KeepsFirst(map, algo) ==
    IF algo.prefix \in DOMAIN map THEN map ELSE MapSet(map, algo.prefix, algo)

\* register(algo) { this.algos.set(algo.prefix, algo); }
HashRegistry_register(map, algo) == MapSet(map, algo.prefix, algo)

\* resolve that looks the whole string up, without the split.
HashRegistry_resolve_NoSplit(map, prefixedHash) ==
    IF prefixedHash \in DOMAIN map
    THEN [ok |-> TRUE, error |-> "none", algo |-> map[prefixedHash]]
    ELSE [ok |-> FALSE, error |-> "UnsupportedHashAlgorithm", algo |-> NoAlgo]

\* resolve(prefixedHash): const [prefix] = prefixedHash.split(":");
\* const algo = this.algos.get(prefix); if (!algo) throw ...; return algo;
HashRegistry_resolve(map, prefixedHash) ==
    LET prefix == SplitFirst(prefixedHash, COLON)
    IN  IF prefix \in DOMAIN map
        THEN [ok |-> TRUE, error |-> "none", algo |-> map[prefix]]
        ELSE [ok |-> FALSE, error |-> "UnsupportedHashAlgorithm", algo |-> NoAlgo]

\* Strings given to resolve: a prefix, then separators and digest characters.
ResolvePrefixes == {SHA256, BLAKE3, <<>>, <<"s">>}

DigestAlphabet == {COLON, "3"}

ResolveInputs ==
    {p \o r : p \in ResolvePrefixes, r \in SeqsUpTo(DigestAlphabet, MaxDigestRest)}

InitRegistry ==
    /\ algos = <<>>
    /\ regLog = <<>>
    /\ regOut = [op |-> "new", arg |-> NoStr, ok |-> TRUE, error |-> "none",
                 algo |-> NoAlgo, hash |-> NoStr]

\* registry.register(algo)
Register(algo) ==
    /\ Len(regLog) < MaxRegistrations
    /\ algos' = HashRegistry_register(algos, algo)
    /\ regLog' = Append(regLog, algo)
    /\ regOut' = [op |-> "register", arg |-> algo.prefix, ok |-> TRUE,
                  error |-> "none", algo |-> algo, hash |-> NoStr]
    /\ UNCHANGED outsideRegistry

\* registry.resolve(prefixedHash).  A resolve or hash call leaves the registry
\* as it found it, so a second one in a row reaches nothing a first one does
\* not: the calls explored are those that follow construction or register.
Resolve(prefixedHash) ==
    /\ regOut.op \in {"new", "register"}
    /\ LET r == HashRegistry_resolve(algos, prefixedHash)
       IN  regOut' = [op |-> "resolve", arg |-> prefixedHash, ok |-> r.ok,
                      error |-> r.error, algo |-> r.algo, hash |-> NoStr]
    /\ UNCHANGED <<algos, regLog>>
    /\ UNCHANGED outsideRegistry

---------------------------------------------------------------------------
(* Characters and bytes *)

QUOTE == "\""
BACKSLASH == "\\"

\* The printable ASCII characters from code 32 (space) to code 95 (_) ...
AsciiLow ==
    <<" ", "!", "\"", "#", "$", "%", "&", "'", "(", ")", "*", "+",
      ",", "-", ".", "/", "0", "1", "2", "3", "4", "5", "6", "7",
      "8", "9", ":", ";", "<", "=", ">", "?", "@", "A", "B", "C",
      "D", "E", "F", "G", "H", "I", "J", "K", "L", "M", "N", "O",
      "P", "Q", "R", "S", "T", "U", "V", "W", "X", "Y", "Z", "[",
      "\\", "]", "^", "_">>

\* ... and from code 97 (a) to code 126 (~).
AsciiHigh ==
    <<"a", "b", "c", "d", "e", "f", "g", "h", "i", "j", "k", "l",
      "m", "n", "o", "p", "q", "r", "s", "t", "u", "v", "w", "x",
      "y", "z", "{", "|", "}", "~">>

\* Code units outside ASCII, written as their hexadecimal numbers: a
\* character of the Basic Multilingual Plane above the surrogates (U+FF5E),
\* and the high and the low surrogate of a character beyond it (U+1F600).
U_FF5E == "FF5E"
U_D83D == "D83D"
U_DE00 == "DE00"

\* The UTF-16 code unit of a character.
CharCode ==
    [c \in {AsciiLow[i] : i \in 1..Len(AsciiLow)}
            \cup {AsciiHigh[i] : i \in 1..Len(AsciiHigh)}
            \cup {LF, CR, U_FF5E, U_D83D, U_DE00} |->
        IF c = LF THEN 10
        ELSE IF c = CR THEN 13
        ELSE IF c = U_FF5E THEN 65374
        ELSE IF c = U_D83D THEN 55357
        ELSE IF c = U_DE00 THEN 56832
        ELSE IF \E i \in 1..Len(AsciiLow) : AsciiLow[i] = c
        THEN 31 + (CHOOSE i \in 1..Len(AsciiLow) : AsciiLow[i] = c)
        ELSE 96 + (CHOOSE i \in 1..Len(AsciiHigh) : AsciiHigh[i] = c)]

IsHighSurrogate(u) == 55296 <= u /\ u <= 56319
IsLowSurrogate(u) == 56320 <= u /\ u <= 57343

\* The UTF-8 bytes of a code point.
UTF8(cp) ==
    IF cp < 128 THEN <<cp>>
    ELSE IF cp < 2048 THEN <<192 + (cp \div 64), 128 + (cp % 64)>>
    ELSE IF cp < 65536
    THEN <<224 + (cp \div 4096), 128 + ((cp \div 64) % 64), 128 + (cp % 64)>>
    ELSE <<240 + (cp \div 262144), 128 + ((cp \div 4096) % 64),
           128 + ((cp \div 64) % 64), 128 + (cp % 64)>>

\* The bytes the i-th code unit of str contributes: a surrogate pair is one
\* code point, written at its high surrogate; a surrogate without its partner
\* is written as U+FFFD.
EncodeUnit(str, i) ==
    LET u == CharCode[str[i]]
    IN  IF IsHighSurrogate(u)
        THEN IF i < Len(str) /\ IsLowSurrogate(CharCode[str[i + 1]])
             THEN UTF8(65536 + (u - 55296) * 1024 + (CharCode[str[i + 1]] - 56320))
             ELSE UTF8(65533)
        ELSE IF IsLowSurrogate(u)
        THEN IF i > 1 /\ IsHighSurrogate(CharCode[str[i - 1]]) THEN <<>>
             ELSE UTF8(65533)
        ELSE UTF8(u)

RECURSIVE EncodeRange(_, _, _)
\* The bytes of the code units str[lo..hi], half by half.
EncodeRange(str, lo, hi) ==
    IF lo > hi THEN <<>>
    ELSE IF lo = hi THEN EncodeUnit(str, lo)
    ELSE EncodeRange(str, lo, (lo + hi) \div 2)
            \o EncodeRange(str, ((lo + hi) \div 2) + 1, hi)

\* new TextEncoder().encode(str): UTF-8; a string of ASCII characters has one
\* byte per character.
TextEncoder_encode(str) ==
    IF \A i \in 1..Len(str) : CharCode[str[i]] < 128
    THEN [i \in 1..Len(str) |-> CharCode[str[i]]]
    ELSE EncodeRange(str, 1, Len(str))

DecimalDigits == <<"0", "1", "2", "3", "4", "5", "6", "7", "8", "9">>

RECURSIVE NaturalToString(_)
NaturalToString(n) ==
    IF n < 10 THEN <<DecimalDigits[n + 1]>>
    ELSE NaturalToString(n \div 10) \o <<DecimalDigits[(n % 10) + 1]>>

\* Number::toString of an integer.
NumberToString(n) ==
    IF n < 0 THEN <<"-">> \o NaturalToString(0 - n) ELSE NaturalToString(n)

RECURSIVE StrLessFrom(_, _, _)
StrLessFrom(a, b, i) ==
    IF i > Len(a) THEN i <= Len(b)
    ELSE IF i > Len(b) THEN FALSE
    ELSE IF CharCode[a[i]] # CharCode[b[i]] THEN CharCode[a[i]] < CharCode[b[i]]
    ELSE StrLessFrom(a, b, i + 1)

\* a < b as Array.prototype.sort compares strings without a comparator: by
\* UTF-16 code units.
StrLess(a, b) == StrLessFrom(a, b, 1)

RECURSIVE InsertSorted(_, _)
InsertSorted(sorted, x) ==
    IF sorted = <<>> THEN <<x>>
    ELSE IF StrLess(x, Head(sorted)) THEN <<x>> \o sorted
    ELSE <<Head(sorted)>> \o InsertSorted(Tail(sorted), x)

\* An array left in the order it came in.
Array_sort_Unsorted(arr) == arr

RECURSIVE Array_sort(_)
\* Array.prototype.sort() of an array of strings.
Array_sort(arr) ==
    IF arr = <<>> THEN <<>>
    ELSE InsertSorted(Array_sort(SubSeq(arr, 1, Len(arr) - 1)), arr[Len(arr)])

---------------------------------------------------------------------------
(* Structured (JSON-LD) values *)

\* A value is a string, a number, an array, or an object whose properties
\* are kept in insertion order as <<key, value>> pairs.
JStr(str) == [t |-> "str", s |-> str]
JNum(n) == [t |-> "num", n |-> n]
JArr(elements) == [t |-> "arr", el |-> elements]
JObj(properties) == [t |-> "obj", kv |-> properties]

\* undefined
JUndefined == [t |-> "undefined"]

\* The numbers that are not finite: NaN and Infinity.
JNaN == [t |-> "nan"]
JInfinity == [t |-> "inf"]

\* Object.keys(obj)
Object_keys(obj) == [i \in 1..Len(obj.kv) |-> obj.kv[i][1]]

HasProperty(obj, key) == \E i \in 1..Len(obj.kv) : obj.kv[i][1] = key

\* obj[key]
GetProperty(obj, key) ==
    IF HasProperty(obj, key)
    THEN obj.kv[CHOOSE i \in 1..Len(obj.kv) : obj.kv[i][1] = key][2]
    ELSE JUndefined

\* obj[key] = value: an existing property keeps its place, a new one goes
\* last.
SetProperty(obj, key, value) ==
    IF HasProperty(obj, key)
    THEN JObj([i \in 1..Len(obj.kv) |->
                 IF obj.kv[i][1] = key THEN <<key, value>> ELSE obj.kv[i]])
    ELSE JObj(Append(obj.kv, <<key, value>>))

\* delete obj[key] (on a copy)
DeleteProperty(obj, key) == JObj(SelectSeq(obj.kv, LAMBDA p : p[1] # key))

---------------------------------------------------------------------------
(* 3a-3b Canonical serialization before hashing: canonicalize *)

RECURSIVE EscapeFrom(_, _)
EscapeFrom(str, i) ==
    IF i > Len(str) THEN <<>>
    ELSE (IF str[i] = QUOTE THEN <<BACKSLASH, QUOTE>>
          ELSE IF str[i] = BACKSLASH THEN <<BACKSLASH, BACKSLASH>>
          ELSE IF str[i] = LF THEN <<BACKSLASH, "n">>
          ELSE IF str[i] = CR THEN <<BACKSLASH, "r">>
          ELSE <<str[i]>>) \o EscapeFrom(str, i + 1)

\* QuoteJSONString
QuoteJSONString(str) == <<QUOTE>> \o EscapeFrom(str, 1) \o <<QUOTE>>

RECURSIVE SerializeJSONProperty(_, _)
RECURSIVE SerializeJSONObjectFrom(_, _, _, _)
RECURSIVE SerializeJSONArrayFrom(_, _, _)

\* The members of object obj for the keys K[i..], each key of the property
\* list K in turn; a key the object does not hold is skipped.
SerializeJSONObjectFrom(obj, K, i, first) ==
    IF i > Len(K) THEN <<>>
    ELSE IF ~HasProperty(obj, K[i]) \/ GetProperty(obj, K[i]).t = "undefined"
    THEN SerializeJSONObjectFrom(obj, K, i + 1, first)
    ELSE (IF first THEN <<>> ELSE <<",">>)
            \o QuoteJSONString(K[i]) \o <<":">>
            \o SerializeJSONProperty(GetProperty(obj, K[i]), K)
            \o SerializeJSONObjectFrom(obj, K, i + 1, FALSE)

SerializeJSONArrayFrom(arr, K, i) ==
    IF i > Len(arr.el) THEN <<>>
    ELSE (IF i = 1 THEN <<>> ELSE <<",">>)
            \o SerializeJSONProperty(arr.el[i], K)
            \o SerializeJSONArrayFrom(arr, K, i + 1)

\* JSON.stringify's SerializeJSONProperty with a property list K (the
\* replacer array): K says which keys are written, and in which order, for
\* the object at hand and for every object nested in it.  A number that is
\* not finite is written as null, and so is an undefined array element; an
\* undefined property is left out.
SerializeJSONProperty(value, K) ==
    CASE value.t = "str" -> QuoteJSONString(value.s)
      [] value.t = "num" -> NumberToString(value.n)
      [] value.t \in {"nan", "inf", "undefined"} -> <<"n", "u", "l", "l">>
      [] value.t = "arr" -> <<"[">> \o SerializeJSONArrayFrom(value, K, 1) \o <<"]">>
      [] value.t = "obj" -> <<"{">> \o SerializeJSONObjectFrom(value, K, 1, TRUE) \o <<"}">>

\* JSON.stringify(value, replacerArray)
JSON_stringify(value, replacer) == SerializeJSONProperty(value, replacer)

\* function canonicalize(jsonld: object): Uint8Array
\*   const canonical = JSON.stringify(jsonld, Object.keys(jsonld).sort());
\*   return new TextEncoder().encode(canonical);
canonicalize(jsonld) ==
    LET canonical == JSON_stringify(jsonld, Array_sort(Object_keys(jsonld)))
    IN  TextEncoder_encode(canonical)

---------------------------------------------------------------------------
(* 3a SHA256Algorithm, and the encodings of digests and keys *)

\* crypto.subtle.digest("SHA-256", content).  The digest function belongs to
\* the platform; it is stood in for by a collision-free scrambling of the
\* input, byte by byte: equal digests mean equal inputs.
WebCrypto_digest(content) ==
    [i \in 1..Len(content) |-> (content[i] * 167 + 13 * i + Len(content)) % 256]

HexDigits ==
    <<"0", "1", "2", "3", "4", "5", "6", "7", "8", "9", "a", "b", "c", "d", "e", "f">>

\* Hex encoding of a byte sequence: two digits per byte, high digit first.
Hex(bytes) ==
    [j \in 1..(2 * Len(bytes)) |->
        IF j % 2 = 1 THEN HexDigits[(bytes[(j + 1) \div 2] \div 16) + 1]
        ELSE HexDigits[(bytes[j \div 2] % 16) + 1]]

\* SHA256Algorithm.hash(content): "sha256:" + hex(digest)
SHA256Algorithm_hash(content) == SHA256 \o <<COLON>> \o Hex(WebCrypto_digest(content))

\* The Base58 (Bitcoin) alphabet.
BASE58_ALPHABET ==
    <<"1", "2", "3", "4", "5", "6", "7", "8", "9", "A", "B", "C",
      "D", "E", "F", "G", "H", "J", "K", "L", "M", "N", "P", "Q",
      "R", "S", "T", "U", "V", "W", "X", "Y", "Z", "a", "b", "c",
      "d", "e", "f", "g", "h", "i", "j", "k", "m", "n", "o", "p",
      "q", "r", "s", "t", "u", "v", "w", "x", "y", "z">>

RECURSIVE LongDivide58(_, _, _, _)
\* Long division of the big-endian base-256 number bytes[lo..hi], with the
\* remainder rem carried in, by 58: the quotient's bytes and the remainder.
\* The range is divided half by half, the left half's remainder carried into
\* the right half.
LongDivide58(bytes, lo, hi, rem) ==
    IF lo > hi THEN [q |-> <<>>, rem |-> rem]
    ELSE IF lo = hi
    THEN [q |-> <<(rem * 256 + bytes[lo]) \div 58>>, rem |-> (rem * 256 + bytes[lo]) % 58]
    ELSE LET mid   == (lo + hi) \div 2
             left  == LongDivide58(bytes, lo, mid, rem)
             right == LongDivide58(bytes, mid + 1, hi, left.rem)
         IN  [q |-> left.q \o right.q, rem |-> right.rem]

\* The number 0, in whatever number of bytes.
IsZero(num) == \A i \in 1..Len(num) : num[i] = 0

\* One step of the conversion: the number is divided by 58 and the remainder
\* becomes the next digit, from the least significant one.
Base58Step(st) ==
    LET d == LongDivide58(st.num, 1, Len(st.num), 0)
    IN  [num |-> d.q, digits |-> <<BASE58_ALPHABET[d.rem + 1]>> \o st.digits]

RECURSIVE Base58Steps(_, _)
\* Up to count steps of the conversion, one after the other, until the number
\* has reached zero.
Base58Steps(count, st) ==
    IF count = 0 \/ IsZero(st.num) THEN st
    ELSE IF count = 1 THEN Base58Step(st)
    ELSE LET half == Base58Steps(count \div 2, st)
         IN  IF IsZero(half.num) THEN half
             ELSE Base58Steps(count - (count \div 2), half)

\* The number in base 58: a byte gives less than two digits.
Base58Digits(bytes) == Base58Steps(2 * Len(bytes), [num |-> bytes, digits |-> <<>>]).digits

\* The "1"s that stand for the leading zero bytes.
LeadingZeros(bytes) ==
    LET nonzero == {i \in 1..Len(bytes) : bytes[i] # 0}
        zeros   == IF nonzero = {} THEN Len(bytes)
                   ELSE (CHOOSE i \in nonzero : \A j \in nonzero : i <= j) - 1
    IN  [i \in 1..zeros |-> BASE58_ALPHABET[1]]

\* Base58 encoding of a byte sequence: a "1" for every leading zero byte,
\* then the number in base 58.
Base58_encode(bytes) == LeadingZeros(bytes) \o Base58Digits(bytes)

---------------------------------------------------------------------------
(* Property names and fixed strings of the manifest and the test fixture *)

\* "@context"
K_CONTEXT ==
    <<"@", "c", "o", "n", "t", "e", "x", "t">>

\* "@id"
K_ID ==
    <<"@", "i", "d">>

\* "@type"
K_TYPE ==
    <<"@", "t", "y", "p", "e">>

\* "hiri:version"
K_VERSION ==
    <<"h", "i", "r", "i", ":", "v", "e", "r", "s", "i", "o", "n">>

\* "hiri:branch"
K_BRANCH ==
    <<"h", "i", "r", "i", ":", "b", "r", "a", "n", "c", "h">>

\* "hiri:timing"
K_TIMING ==
    <<"h", "i", "r", "i", ":", "t", "i", "m", "i", "n", "g">>

\* "hiri:content"
K_CONTENT ==
    <<"h", "i", "r", "i", ":", "c", "o", "n", "t", "e", "n", "t">>

\* "hiri:chain"
K_CHAIN ==
    <<"h", "i", "r", "i", ":", "c", "h", "a", "i", "n">>

\* "hiri:signature"
K_SIGNATURE ==
    <<"h", "i", "r", "i", ":", "s", "i", "g", "n", "a", "t", "u", "r", "e">>

\* "created"
K_created ==
    <<"c", "r", "e", "a", "t", "e", "d">>

\* "hash"
K_hash ==
    <<"h", "a", "s", "h">>

\* "format"
K_format ==
    <<"f", "o", "r", "m", "a", "t">>

\* "size"
K_size ==
    <<"s", "i", "z", "e">>

\* "canonicalization"
K_canonicalization ==
    <<"c", "a", "n", "o", "n", "i", "c", "a", "l", "i", "z", "a", "t", "i",
      "o", "n">>

\* "type"
K_type ==
    <<"t", "y", "p", "e">>

\* "verificationMethod"
K_verificationMethod ==
    <<"v", "e", "r", "i", "f", "i", "c", "a", "t", "i", "o", "n", "M", "e",
      "t", "h", "o", "d">>

\* "proofPurpose"
K_proofPurpose ==
    <<"p", "r", "o", "o", "f", "P", "u", "r", "p", "o", "s", "e">>

\* "proofValue"
K_proofValue ==
    <<"p", "r", "o", "o", "f", "V", "a", "l", "u", "e">>

\* "previous"
K_previous ==
    <<"p", "r", "e", "v", "i", "o", "u", "s">>

\* "https://hiri-protocol.org/spec/v2.1"
CTX_HIRI ==
    <<"h", "t", "t", "p", "s", ":", "/", "/", "h", "i", "r", "i", "-", "p",
      "r", "o", "t", "o", "c", "o", "l", ".", "o", "r", "g", "/", "s", "p",
      "e", "c", "/", "v", "2", ".", "1">>

\* "https://w3id.org/security/v2"
CTX_SECURITY ==
    <<"h", "t", "t", "p", "s", ":", "/", "/", "w", "3", "i", "d", ".", "o",
      "r", "g", "/", "s", "e", "c", "u", "r", "i", "t", "y", "/", "v", "2">>

\* "hiri:ResolutionManifest"
RESOLUTION_MANIFEST ==
    <<"h", "i", "r", "i", ":", "R", "e", "s", "o", "l", "u", "t", "i", "o",
      "n", "M", "a", "n", "i", "f", "e", "s", "t">>

\* "main"
BRANCH_MAIN ==
    <<"m", "a", "i", "n">>

\* "application/ld+json"
FORMAT_JSONLD ==
    <<"a", "p", "p", "l", "i", "c", "a", "t", "i", "o", "n", "/", "l", "d",
      "+", "j", "s", "o", "n">>

\* "JCS"
JCS ==
    <<"J", "C", "S">>

\* "Ed25519Signature2020"
ED25519_SIGNATURE_2020 ==
    <<"E", "d", "2", "5", "5", "1", "9", "S", "i", "g", "n", "a", "t", "u",
      "r", "e", "2", "0", "2", "0">>

\* "assertionMethod"
ASSERTION_METHOD ==
    <<"a", "s", "s", "e", "r", "t", "i", "o", "n", "M", "e", "t", "h", "o",
      "d">>

\* "key"
KEY_SCHEME ==
    <<"k", "e", "y">>

\* "ed25519"
ED25519 ==
    <<"e", "d", "2", "5", "5", "1", "9">>

\* "data"
TYPE_DATA ==
    <<"d", "a", "t", "a">>

\* "key"
TYPE_KEY ==
    <<"k", "e", "y">>

\* "main"
KEYDOC_MAIN ==
    <<"m", "a", "i", "n">>

\* "key-1"
KEY_1 ==
    <<"k", "e", "y", "-", "1">>

\* "person-001"
PERSON_001 ==
    <<"p", "e", "r", "s", "o", "n", "-", "0", "0", "1">>

\* "AUTHORITY_PLACEHOLDER"
AUTHORITY_PLACEHOLDER ==
    <<"A", "U", "T", "H", "O", "R", "I", "T", "Y", "_", "P", "L", "A", "C",
      "E", "H", "O", "L", "D", "E", "R">>

\* "hiri://key:ed25519:AUTHORITY_PLACEHOLDER/data/person-001"
FIXTURE_ID ==
    <<"h", "i", "r", "i", ":", "/", "/", "k", "e", "y", ":", "e", "d", "2",
      "5", "5", "1", "9", ":", "A", "U", "T", "H", "O", "R", "I", "T", "Y",
      "_", "P", "L", "A", "C", "E", "H", "O", "L", "D", "E", "R", "/", "d",
      "a", "t", "a", "/", "p", "e", "r", "s", "o", "n", "-", "0", "0", "1">>

\* "schema"
K_schema ==
    <<"s", "c", "h", "e", "m", "a">>

\* "http://schema.org/"
SCHEMA_ORG ==
    <<"h", "t", "t", "p", ":", "/", "/", "s", "c", "h", "e", "m", "a", ".",
      "o", "r", "g", "/">>

\* "schema:Person"
SCHEMA_PERSON ==
    <<"s", "c", "h", "e", "m", "a", ":", "P", "e", "r", "s", "o", "n">>

\* "schema:name"
K_SCHEMA_NAME ==
    <<"s", "c", "h", "e", "m", "a", ":", "n", "a", "m", "e">>

\* "schema:address"
K_SCHEMA_ADDRESS ==
    <<"s", "c", "h", "e", "m", "a", ":", "a", "d", "d", "r", "e", "s", "s">>

\* "schema:PostalAddress"
SCHEMA_POSTAL_ADDRESS ==
    <<"s", "c", "h", "e", "m", "a", ":", "P", "o", "s", "t", "a", "l", "A",
      "d", "d", "r", "e", "s", "s">>

\* "schema:addressLocality"
K_SCHEMA_LOCALITY ==
    <<"s", "c", "h", "e", "m", "a", ":", "a", "d", "d", "r", "e", "s", "s",
      "L", "o", "c", "a", "l", "i", "t", "y">>

\* "Dana Reeves"
DANA_REEVES ==
    <<"D", "a", "n", "a", " ", "R", "e", "e", "v", "e", "s">>

\* "Dana Reevez"
DANA_REEVEZ ==
    <<"D", "a", "n", "a", " ", "R", "e", "e", "v", "e", "z">>

\* "Portland"
PORTLAND ==
    <<"P", "o", "r", "t", "l", "a", "n", "d">>

\* "Portlane"
PORTLANE ==
    <<"P", "o", "r", "t", "l", "a", "n", "e">>

---------------------------------------------------------------------------
(* HashRegistry.hash, keys, authority derivation *)

\* algo.hash(content): the SHA-256 implementation of step 3a for the first
\* implementation; any other implementation computes a digest of its own.
HashAlgorithm_hash(algo, content) ==
    IF algo = HashAlgorithm(SHA256, 1) THEN SHA256Algorithm_hash(content)
    ELSE algo.prefix \o <<COLON>> \o Hex(WebCrypto_digest(content \o <<algo.impl>>))

\* hash that falls back on a built-in SHA-256 for a prefix it does not hold.
HashRegistry_hash_BuiltInFallback(map, content, prefix) ==
    [ok |-> TRUE, error |-> "none",
     hash |-> IF prefix \in DOMAIN map THEN HashAlgorithm_hash(map[prefix], content)
              ELSE SHA256Algorithm_hash(content)]

\* hash(content, prefix = "sha256"): const algo = this.algos.get(prefix);
\* if (!algo) throw ...; return algo.hash(content);
HashRegistry_hash(map, content, prefix) ==
    IF prefix \in DOMAIN map
    THEN [ok |-> TRUE, error |-> "none", hash |-> HashAlgorithm_hash(map[prefix], content)]
    ELSE [ok |-> FALSE, error |-> "AlgorithmNotRegistered", hash |-> NoStr]

\* The prefix hash uses when it is given none.
DEFAULT_PREFIX == SHA256

\* Contents and prefixes given to hash; NoStr stands for a call that gives no
\* prefix.
HashContents == {<<>>, <<104, 105>>}

HashPrefixes == {SHA256, BLAKE3, NoStr}

\* A hash that, for a prefix the registry does not hold, registers an
\* algorithm under it before it fails.
Hash_RegistersOnMiss(content, prefix) ==
    /\ regOut.op \in {"new", "register"}
    /\ LET p == IF prefix = NoStr THEN DEFAULT_PREFIX ELSE prefix
           r == HashRegistry_hash(algos, content, p)
       IN  /\ regOut' = [op |-> "hash", arg |-> prefix, ok |-> r.ok, error |-> r.error,
                         algo |-> NoAlgo, hash |-> r.hash]
           /\ algos' = IF r.ok THEN algos ELSE MapSet(algos, p, HashAlgorithm(p, 1))
    /\ UNCHANGED regLog
    /\ UNCHANGED outsideRegistry

\* registry.hash(content, prefix) and registry.hash(content)
Hash(content, prefix) ==
    /\ regOut.op \in {"new", "register"}
    /\ LET r == HashRegistry_hash(algos, content,
                                  IF prefix = NoStr THEN DEFAULT_PREFIX ELSE prefix)
       IN  regOut' = [op |-> "hash", arg |-> prefix, ok |-> r.ok, error |-> r.error,
                      algo |-> NoAlgo, hash |-> r.hash]
    /\ UNCHANGED <<algos, regLog>>
    /\ UNCHANGED outsideRegistry

NextRegistry ==
    \/ \E a \in Algorithms : Register(a)
    \/ \E d \in ResolveInputs : Resolve(d)
    \/ \E content \in HashContents, prefix \in HashPrefixes : Hash(content, prefix)

\* Ed25519: 32-byte seed, 32-byte public key, 64-byte secret key.
ED25519_SEED_LENGTH == 32
ED25519_PUBLIC_KEY_LENGTH == 32
ED25519_SECRET_KEY_LENGTH == 64

\* The seed of the k-th keypair the application generates.
Seed(k) == [i \in 1..ED25519_SEED_LENGTH |-> (k * 113 + i * 29) % 256]

\* The public key of a seed.  The curve arithmetic belongs to the platform;
\* it is stood in for by a one-to-one scrambling of the seed.
Ed25519_publicKey(seed) == [i \in 1..Len(seed) |-> (seed[i] * 5 + i) % 256]

\* Keypair generation: the SigningKey of the k-th keypair.  The secret key is
\* the seed followed by the public key.
generateKeypair(k) ==
    LET seed == Seed(k)
        pub  == Ed25519_publicKey(seed)
    IN  [algorithm |-> ED25519, publicKey |-> pub, privateKey |-> seed \o pub,
         keyId |-> KEY_1]

\* The number of Base58 characters an authority keeps of the key's hash.
AUTHORITY_HASH_LENGTH == 20

\* "key:" + algorithm + ":"
AuthorityPrefix(algorithm) == KEY_SCHEME \o <<COLON>> \o algorithm \o <<COLON>>

\* base58(sha256(publicKey))[0:20]
AuthorityHash(publicKey) ==
    LET b58 == Base58_encode(WebCrypto_digest(publicKey))
    IN  SubSeq(b58, 1, IF Len(b58) < AUTHORITY_HASH_LENGTH THEN Len(b58)
                       ELSE AUTHORITY_HASH_LENGTH)

\* An authority that keeps the whole hash of the key.
derive_Untruncated(publicKey, algorithm) ==
    AuthorityPrefix(algorithm) \o Base58_encode(WebCrypto_digest(publicKey))

\* derive(publicKey, algorithm):
\* authority string = "key:ed25519:" + base58(sha256(publicKey))[0:20]
derive(publicKey, algorithm) == AuthorityPrefix(algorithm) \o AuthorityHash(publicKey)

\* A URI with the type and the identifier in each other's place.
buildURI_Swapped(authority, type, identifier) == HiriURI(authority, identifier, type)

\* buildURI(authority, type, identifier): HiriURI
buildURI(authority, type, identifier) == HiriURI(authority, type, identifier)

---------------------------------------------------------------------------
(* 2.1 The content: person.jsonld *)

\* The fixture, with its name and its (nested) address locality as given.
PersonDocument(name, locality) ==
    JObj(<< <<K_CONTEXT, JObj(<< <<K_schema, JStr(SCHEMA_ORG)>> >>)>>,
            <<K_ID, JStr(FIXTURE_ID)>>,
            <<K_TYPE, JStr(SCHEMA_PERSON)>>,
            <<K_SCHEMA_NAME, JStr(name)>>,
            <<K_SCHEMA_ADDRESS,
              JObj(<< <<K_TYPE, JStr(SCHEMA_POSTAL_ADDRESS)>>,
                      <<K_SCHEMA_LOCALITY, JStr(locality)>> >>)>> >>)

\* str.indexOf(pattern): the first position where pattern starts in str, 0
\* if there is none.
String_indexOf(str, pattern) ==
    LET hits == {i \in 1..(Len(str) - Len(pattern) + 1) :
                    SubSeq(str, i, i + Len(pattern) - 1) = pattern}
    IN  IF hits = {} THEN 0 ELSE CHOOSE i \in hits : \A j \in hits : i <= j

\* str.replace(pattern, replacement): the first occurrence is replaced.
String_replace(str, pattern, replacement) ==
    LET i == String_indexOf(str, pattern)
    IN  IF i = 0 THEN str
        ELSE SubSeq(str, 1, i - 1) \o replacement \o Drop(str, i + Len(pattern) - 1)

\* Step 3d, first half: AUTHORITY_PLACEHOLDER in the content's @id is replaced
\* with what derive put after "key:ed25519:", so that the content's @id
\* carries the authority of the key.
replacePlaceholder(content, authority, algorithm) ==
    SetProperty(content, K_ID,
        JStr(String_replace(GetProperty(content, K_ID).s, AUTHORITY_PLACEHOLDER,
                            Drop(authority, Len(AuthorityPrefix(algorithm))))))

---------------------------------------------------------------------------
(* Signer *)

\* The value of a hexadecimal digit, 16 for any other character.
HexValue(c) ==
    IF \E v \in 1..16 : HexDigits[v] = c
    THEN (CHOOSE v \in 1..16 : HexDigits[v] = c) - 1
    ELSE 16

\* Multibase, base16: "f", then two hexadecimal digits per byte.
Multibase_encode(bytes) == <<"f">> \o Hex(bytes)

Multibase_wellFormed(text) ==
    /\ Len(text) >= 1
    /\ text[1] = "f"
    /\ (Len(text) - 1) % 2 = 0
    /\ \A i \in 2..Len(text) : HexValue(text[i]) < 16

Multibase_decode(text) ==
    [i \in 1..((Len(text) - 1) \div 2) |->
        16 * HexValue(text[2 * i]) + HexValue(text[2 * i + 1])]

\* An Ed25519 signature of content under a secret key.  The scheme belongs
\* to the platform; it is stood in for by an ideal one, whose signature names
\* the public half of the key and the content, so that a signature verifies
\* for one key and one content only.
Ed25519_sign_LeaksKey(content, privateKey) == privateKey \o content

Ed25519_sign(content, privateKey) ==
    SubSeq(privateKey, ED25519_SEED_LENGTH + 1, ED25519_SECRET_KEY_LENGTH) \o content

\* A verification that looks at the key a signature names, not at the content.
Ed25519_verify_KeyOnly(content, sig, publicKey) ==
    /\ Len(sig) >= Len(publicKey)
    /\ SubSeq(sig, 1, Len(publicKey)) = publicKey

Ed25519_verify(content, sig, publicKey) == sig = publicKey \o content

\* "hiri://<authority>/key/main#<keyId>"
verificationMethod(key) ==
    HiriURI_toString(buildURI(derive(key.publicKey, key.algorithm), TYPE_KEY, KEYDOC_MAIN))
        \o <<"#">> \o key.keyId

\* sign(content, key, timestamp): HiriSignature
Signer_sign(content, key, timestamp) ==
    JObj(<< <<K_type, JStr(ED25519_SIGNATURE_2020)>>,
            <<K_created, JStr(timestamp)>>,
            <<K_verificationMethod, JStr(verificationMethod(key))>>,
            <<K_proofPurpose, JStr(ASSERTION_METHOD)>>,
            <<K_proofValue,
              JStr(Multibase_encode(Ed25519_sign(content, key.privateKey)))>> >>)

\* Input that sign and verify reject as malformed: a public key of the wrong
\* length, a signature block without a decodable proof value.
Signer_malformed(signature, publicKey) ==
    \/ Len(publicKey) # ED25519_PUBLIC_KEY_LENGTH
    \/ signature.t # "obj"
    \/ GetProperty(signature, K_proofValue).t # "str"
    \/ ~Multibase_wellFormed(GetProperty(signature, K_proofValue).s)

\* A verify that throws when the signature does not match.
Signer_verify_ThrowsOnMismatch(content, signature, publicKey) ==
    IF \/ Signer_malformed(signature, publicKey)
       \/ ~Ed25519_verify(content,
                          Multibase_decode(GetProperty(signature, K_proofValue).s),
                          publicKey)
    THEN [error |-> "InvalidSignature", value |-> FALSE]
    ELSE [error |-> "none", value |-> TRUE]

\* A verify that keeps what it has seen: it accepts once, and answers false
\* when any call has returned before.
Signer_verify_OnceOnly(content, signature, publicKey) ==
    IF Signer_malformed(signature, publicKey)
    THEN [error |-> "InvalidSignature", value |-> FALSE]
    ELSE [error |-> "none",
          value |-> /\ \A c \in DOMAIN vfyCalls : vfyCalls[c].outs = <<>>
                    /\ Ed25519_verify(content,
                           Multibase_decode(GetProperty(signature, K_proofValue).s),
                           publicKey)]

\* verify(content, signature, publicKey): boolean
Signer_verify(content, signature, publicKey) ==
    IF Signer_malformed(signature, publicKey)
    THEN [error |-> "InvalidSignature", value |-> FALSE]
    ELSE [error |-> "none",
          value |-> Ed25519_verify(content,
                        Multibase_decode(GetProperty(signature, K_proofValue).s),
                        publicKey)]

---------------------------------------------------------------------------
(* 3d-3g Content preparation, manifest construction, signing, verification *)

\* A manifest @id that is the fixture's, its placeholder left in place.
manifestId_Placeholder(authority) == FIXTURE_ID

\* "@id": "hiri://key:ed25519:<derived-authority>/data/person-001"
manifestId(authority) == HiriURI_toString(buildURI(authority, TYPE_DATA, PERSON_001))

\* Step 3e: the ResolutionManifest with all required fields, no signature
\* yet.  chain is JUndefined for a manifest that has no chain link.
\* A builder that marks the content hash with the version it is built for.
buildManifest_HashPerVersion(authority, contentHash, size, version, chain, timestamp) ==
    LET head == << <<K_CONTEXT, JArr(<<JStr(CTX_HIRI), JStr(CTX_SECURITY)>>)>>,
                   <<K_ID, JStr(manifestId(authority))>>,
                   <<K_TYPE, JStr(RESOLUTION_MANIFEST)>>,
                   <<K_VERSION, JNum(version)>>,
                   <<K_BRANCH, JStr(BRANCH_MAIN)>>,
                   <<K_TIMING, JObj(<< <<K_created, JStr(timestamp)>> >>)>> >>
        link == IF chain = JUndefined THEN <<>> ELSE << <<K_CHAIN, chain>> >>
        tail == << <<K_CONTENT,
                     JObj(<< <<K_hash, JStr(contentHash \o NaturalToString(version))>>,
                             <<K_format, JStr(FORMAT_JSONLD)>>,
                             <<K_size, JNum(size)>>,
                             <<K_canonicalization, JStr(JCS)>> >>)>> >>
    IN  JObj(head \o link \o tail)

buildManifest(authority, contentHash, size, version, chain, timestamp) ==
    LET head == << <<K_CONTEXT, JArr(<<JStr(CTX_HIRI), JStr(CTX_SECURITY)>>)>>,
                   <<K_ID, JStr(manifestId(authority))>>,
                   <<K_TYPE, JStr(RESOLUTION_MANIFEST)>>,
                   <<K_VERSION, JNum(version)>>,
                   <<K_BRANCH, JStr(BRANCH_MAIN)>>,
                   <<K_TIMING, JObj(<< <<K_created, JStr(timestamp)>> >>)>> >>
        link == IF chain = JUndefined THEN <<>> ELSE << <<K_CHAIN, chain>> >>
        tail == << <<K_CONTENT,
                     JObj(<< <<K_hash, JStr(contentHash)>>,
                             <<K_format, JStr(FORMAT_JSONLD)>>,
                             <<K_size, JNum(size)>>,
                             <<K_canonicalization, JStr(JCS)>> >>)>> >>
    IN  JObj(head \o link \o tail)

\* Signing bytes taken with an empty signature block in place.
signingBytes_WithSignatureBlock(manifest) ==
    canonicalize(SetProperty(manifest, K_SIGNATURE, JObj(<<>>)))

\* Verification bytes taken from the whole manifest, signature block included.
verificationBytes_WithSignatureBlock(manifest) == canonicalize(manifest)

\* Sign: manifest_bytes = canonicalize(manifest - signature)
signingBytes(manifest) == canonicalize(DeleteProperty(manifest, K_SIGNATURE))

\* Sign: ... -> sign(manifest_bytes, privateKey) -> signature, attached
signManifest(manifest, key, timestamp) ==
    SetProperty(manifest, K_SIGNATURE, Signer_sign(signingBytes(manifest), key, timestamp))

\* Verify: manifest_bytes = canonicalize(manifest - signature)
verificationBytes(manifest) == canonicalize(DeleteProperty(manifest, K_SIGNATURE))

\* Verify: ... -> verify(manifest_bytes, signature, publicKey) -> boolean
verifyManifest(manifest, publicKey) ==
    Signer_verify(verificationBytes(manifest), GetProperty(manifest, K_SIGNATURE), publicKey)

---------------------------------------------------------------------------
(* 3i The minimal KeyDocument *)

\* "hiri:authority"
K_AUTHORITY ==
    <<"h", "i", "r", "i", ":", "a", "u", "t", "h", "o", "r", "i", "t", "y">>

\* "hiri:authorityType"
K_AUTHORITY_TYPE ==
    <<"h", "i", "r", "i", ":", "a", "u", "t", "h", "o", "r", "i", "t", "y",
      "T", "y", "p", "e">>

\* "hiri:activeKeys"
K_ACTIVE_KEYS ==
    <<"h", "i", "r", "i", ":", "a", "c", "t", "i", "v", "e", "K", "e", "y",
      "s">>

\* "hiri:rotatedKeys"
K_ROTATED_KEYS ==
    <<"h", "i", "r", "i", ":", "r", "o", "t", "a", "t", "e", "d", "K", "e",
      "y", "s">>

\* "hiri:revokedKeys"
K_REVOKED_KEYS ==
    <<"h", "i", "r", "i", ":", "r", "e", "v", "o", "k", "e", "d", "K", "e",
      "y", "s">>

\* "hiri:policies"
K_POLICIES ==
    <<"h", "i", "r", "i", ":", "p", "o", "l", "i", "c", "i", "e", "s">>

\* "controller"
K_controller ==
    <<"c", "o", "n", "t", "r", "o", "l", "l", "e", "r">>

\* "publicKeyMultibase"
K_publicKeyMultibase ==
    <<"p", "u", "b", "l", "i", "c", "K", "e", "y", "M", "u", "l", "t", "i",
      "b", "a", "s", "e">>

\* "purposes"
K_purposes ==
    <<"p", "u", "r", "p", "o", "s", "e", "s">>

\* "validFrom"
K_validFrom ==
    <<"v", "a", "l", "i", "d", "F", "r", "o", "m">>

\* "gracePeriodAfterRotation"
K_gracePeriodAfterRotation ==
    <<"g", "r", "a", "c", "e", "P", "e", "r", "i", "o", "d", "A", "f", "t",
      "e", "r", "R", "o", "t", "a", "t", "i", "o", "n">>

\* "minimumKeyValidity"
K_minimumKeyValidity ==
    <<"m", "i", "n", "i", "m", "u", "m", "K", "e", "y", "V", "a", "l", "i",
      "d", "i", "t", "y">>

\* "hiri:KeyDocument"
KEY_DOCUMENT ==
    <<"h", "i", "r", "i", ":", "K", "e", "y", "D", "o", "c", "u", "m", "e",
      "n", "t">>

\* "Ed25519VerificationKey2020"
ED25519_VERIFICATION_KEY_2020 ==
    <<"E", "d", "2", "5", "5", "1", "9", "V", "e", "r", "i", "f", "i", "c",
      "a", "t", "i", "o", "n", "K", "e", "y", "2", "0", "2", "0">>

\* "P180D"
P180D ==
    <<"P", "1", "8", "0", "D">>

\* "P365D"
P365D ==
    <<"P", "3", "6", "5", "D">>

\* "z6Mk<base58-encoded-public-key>": multibase base58btc ("z") of the
\* Ed25519 public-key code, the bytes ed 01, followed by the key.
publicKeyMultibase(publicKey) == <<"z">> \o Base58_encode(<<237, 1>> \o publicKey)

\* The public key a publicKeyMultibase text stands for, among the keys there
\* are; no bytes when it stands for none.
publicKeyFromMultibase(text) ==
    IF \E k \in 1..NumKeys : publicKeyMultibase(generateKeypair(k).publicKey) = text
    THEN generateKeypair(CHOOSE k \in 1..NumKeys :
                            publicKeyMultibase(generateKeypair(k).publicKey) = text).publicKey
    ELSE <<>>

\* "hiri://key:ed25519:<derived-authority>/key/main"
keyDocumentId(key) ==
    HiriURI_toString(buildURI(derive(key.publicKey, key.algorithm), TYPE_KEY, KEYDOC_MAIN))

\* An entry of "hiri:activeKeys" for a key.
activeKeyEntry(key, timestamp) ==
    JObj(<< <<K_ID, JStr(verificationMethod(key))>>,
            <<K_TYPE, JStr(ED25519_VERIFICATION_KEY_2020)>>,
            <<K_controller, JStr(keyDocumentId(key))>>,
            <<K_publicKeyMultibase, JStr(publicKeyMultibase(key.publicKey))>>,
            <<K_purposes, JArr(<<JStr(ASSERTION_METHOD)>>)>>,
            <<K_validFrom, JStr(timestamp)>> >>)

\* A Key Document that lists its key as rotated as well.
buildKeyDocument_KeyAlsoRotated(key, timestamp) ==
    JObj(<< <<K_CONTEXT, JArr(<<JStr(CTX_HIRI), JStr(CTX_SECURITY)>>)>>,
            <<K_ID, JStr(keyDocumentId(key))>>,
            <<K_TYPE, JStr(KEY_DOCUMENT)>>,
            <<K_VERSION, JNum(1)>>,
            <<K_AUTHORITY, JStr(derive(key.publicKey, key.algorithm))>>,
            <<K_AUTHORITY_TYPE, JStr(KEY_SCHEME)>>,
            <<K_ACTIVE_KEYS, JArr(<<activeKeyEntry(key, timestamp)>>)>>,
            <<K_ROTATED_KEYS, JArr(<<activeKeyEntry(key, timestamp)>>)>>,
            <<K_REVOKED_KEYS, JArr(<<>>)>>,
            <<K_POLICIES, JObj(<< <<K_gracePeriodAfterRotation, JStr(P180D)>>,
                                  <<K_minimumKeyValidity, JStr(P365D)>> >>)>> >>)

\* Step 3i: the minimal Key Document of a key, no signature yet.
buildKeyDocument(key, timestamp) ==
    JObj(<< <<K_CONTEXT, JArr(<<JStr(CTX_HIRI), JStr(CTX_SECURITY)>>)>>,
            <<K_ID, JStr(keyDocumentId(key))>>,
            <<K_TYPE, JStr(KEY_DOCUMENT)>>,
            <<K_VERSION, JNum(1)>>,
            <<K_AUTHORITY, JStr(derive(key.publicKey, key.algorithm))>>,
            <<K_AUTHORITY_TYPE, JStr(KEY_SCHEME)>>,
            <<K_ACTIVE_KEYS, JArr(<<activeKeyEntry(key, timestamp)>>)>>,
            <<K_ROTATED_KEYS, JArr(<<>>)>>,
            <<K_REVOKED_KEYS, JArr(<<>>)>>,
            <<K_POLICIES, JObj(<< <<K_gracePeriodAfterRotation, JStr(P180D)>>,
                                  <<K_minimumKeyValidity, JStr(P365D)>> >>)>> >>)

\* The Key Document is self-signed by the key it establishes: built, signed
\* over its canonical bytes, the signature block attached.
signKeyDocument(document, key, timestamp) ==
    SetProperty(document, K_SIGNATURE,
                Signer_sign(canonicalize(DeleteProperty(document, K_SIGNATURE)),
                            key, timestamp))

\* A validation that checks the signature against the key its verification
\* method names, whatever key the document lists.
verifyKeyDocument_KeyByName(document) ==
    LET signature == GetProperty(document, K_SIGNATURE)
        method    == GetProperty(signature, K_verificationMethod)
    IN  IF \E k \in 1..NumKeys : JStr(verificationMethod(generateKeypair(k))) = method
        THEN Signer_verify(canonicalize(DeleteProperty(document, K_SIGNATURE)), signature,
                           generateKeypair(CHOOSE k \in 1..NumKeys :
                               JStr(verificationMethod(generateKeypair(k))) = method).publicKey)
        ELSE [error |-> "none", value |-> FALSE]

\* The Key Document's validity is verified against that same key: the
\* verification method of its signature is looked up in its own list of
\* active keys, and the signature is verified against the public key listed
\* there.
verifyKeyDocument(document) ==
    LET signature == GetProperty(document, K_SIGNATURE)
        method    == GetProperty(signature, K_verificationMethod)
        active    == GetProperty(document, K_ACTIVE_KEYS).el
        listed    == {i \in 1..Len(active) : GetProperty(active[i], K_ID) = method}
    IN  IF listed = {} THEN [error |-> "none", value |-> FALSE]
        ELSE Signer_verify(
                 canonicalize(DeleteProperty(document, K_SIGNATURE)), signature,
                 publicKeyFromMultibase(
                     GetProperty(active[CHOOSE i \in listed : TRUE],
                                 K_publicKeyMultibase).s))

---------------------------------------------------------------------------
(* 3h Genesis handling *)

\* !value
Falsy(value) ==
    \/ value.t = "undefined"
    \/ value.t = "num" /\ value.n = 0
    \/ value.t = "str" /\ value.s = <<>>

\* A genesis check that accepts every manifest.
isGenesisValid_AcceptsAll(manifest) == TRUE

\* A genesis check that wants a signature block on the manifest.
isGenesisValid_NeedsSignature(manifest) ==
    /\ HasProperty(manifest, K_SIGNATURE)
    /\ ~(GetProperty(manifest, K_VERSION).n > 1 /\ Falsy(GetProperty(manifest, K_CHAIN)))

\* function isGenesisValid(manifest: ResolutionManifest): boolean
isGenesisValid(manifest) ==
    LET version == GetProperty(manifest, K_VERSION).n
        chain   == GetProperty(manifest, K_CHAIN)
    IN  IF version = 1 /\ Falsy(chain) THEN TRUE
        ELSE IF version = 1 /\ ~Falsy(chain) THEN TRUE
        ELSE IF version > 1 /\ Falsy(chain) THEN FALSE
        ELSE TRUE

\* Acceptance of a manifest by a verifier: steps 3g and 3h both pass.
acceptManifest(manifest, publicKey) ==
    /\ verifyManifest(manifest, publicKey).value
    /\ isGenesisValid(manifest)

---------------------------------------------------------------------------
(* The manifest protocol as a state machine: an application registers the   *)
(* hash algorithm, builds and signs a manifest; the manifest reaches a      *)
(* verifier as it was built or altered on the way; the verifier checks the  *)
(* genesis rule and verifies the signature.                                 *)

Keys == 1..NumKeys

Keypairs == [k \in Keys |-> generateKeypair(k)]

\* An injected clock: the n-th instant, as text.
Timestamp(n) == <<"2", "0", "2", "6", "-", "0", "1", "-", "0">> \o NumberToString(n)

Names == {DANA_REEVES, DANA_REEVEZ}

Localities == {PORTLAND, PORTLANE}

\* The link of a manifest of the given version to its predecessor.
ChainLink(version) ==
    JObj(<< <<K_previous,
              JStr(SHA256Algorithm_hash(TextEncoder_encode(NumberToString(version - 1))))>> >>)

\* obj[key][sub] = value
SetNested(obj, key, sub, value) ==
    SetProperty(obj, key, SetProperty(GetProperty(obj, key), sub, value))

\* The text with its i-th character replaced by another one.
FlipChar(str, i) ==
    [str EXCEPT ![i] = IF HexValue(@) < 16 THEN HexDigits[((HexValue(@) + 1) % 16) + 1]
                       ELSE IF @ = "x" THEN "y" ELSE "x"]

FlipLast(value) == JStr(FlipChar(value.s, Len(value.s)))

InitManifest ==
    /\ mpc = "idle"
    /\ mErr = "none"
    /\ mKey = 0
    /\ mContent = JUndefined
    /\ mSigned = JUndefined
    /\ received = JUndefined
    /\ tamper = "none"
    /\ signBytes = <<>>
    /\ verifyKey = 0
    /\ verifyBytes = <<>>
    /\ verifyOut = [error |-> "none", value |-> FALSE]
    /\ genesisOut = "none"

\* The composing application registers the SHA-256 implementation.
Compose ==
    /\ regLog = <<>>
    /\ Register(HashAlgorithm(SHA256, 1))

\* Steps 3d-3f for the fixture with the given name and locality, signed by
\* the k-th keypair: prepare the content, hash it via the registry, build
\* the manifest, sign it, attach the signature.
CreateManifest(name, locality, k, version, withChain) ==
    /\ mpc = "idle"
    /\ LET key          == Keypairs[k]
           authority    == derive(key.publicKey, key.algorithm)
           content      == replacePlaceholder(PersonDocument(name, locality),
                                              authority, key.algorithm)
           contentBytes == canonicalize(content)
           h            == HashRegistry_hash(algos, contentBytes, SHA256)
           unsigned     == buildManifest(authority, h.hash, Len(contentBytes), version,
                                         IF withChain THEN ChainLink(version)
                                         ELSE JUndefined,
                                         Timestamp(1))
           signed       == signManifest(unsigned, key, Timestamp(1))
       IN  IF ~h.ok
           THEN /\ mpc' = "failed"
                /\ mErr' = h.error
                /\ UNCHANGED <<mKey, mContent, mSigned, received, signBytes>>
           ELSE /\ mpc' = "built"
                /\ mErr' = "none"
                /\ mKey' = k
                /\ mContent' = content
                /\ mSigned' = signed
                /\ received' = signed
                /\ signBytes' = signingBytes(unsigned)
    /\ UNCHANGED <<tamper, verifyKey, verifyBytes, verifyOut, genesisOut>>
    /\ UNCHANGED outsideManifest

\* The fields of a manifest, outside its signature block, that are altered
\* on the way to the verifier.
TamperFields ==
    {"@context", "@id", "@type", "hiri:branch", "hiri:timing.created",
     "hiri:content.hash", "hiri:content.format", "hiri:content.size",
     "hiri:chain", "hiri:chain.previous"}

\* The manifest m with one field altered.
Altered(m, field) ==
    CASE field = "@context" ->
            SetProperty(m, K_CONTEXT,
                JArr([GetProperty(m, K_CONTEXT).el EXCEPT ![1] = FlipLast(@)]))
      [] field = "@id" -> SetProperty(m, K_ID, FlipLast(GetProperty(m, K_ID)))
      [] field = "@type" -> SetProperty(m, K_TYPE, FlipLast(GetProperty(m, K_TYPE)))
      [] field = "hiri:branch" -> SetProperty(m, K_BRANCH, FlipLast(GetProperty(m, K_BRANCH)))
      [] field = "hiri:timing.created" -> SetNested(m, K_TIMING, K_created, JStr(Timestamp(2)))
      [] field = "hiri:content.hash" ->
            SetNested(m, K_CONTENT, K_hash, FlipLast(GetProperty(GetProperty(m, K_CONTENT), K_hash)))
      [] field = "hiri:content.format" ->
            SetNested(m, K_CONTENT, K_format, FlipLast(GetProperty(GetProperty(m, K_CONTENT), K_format)))
      [] field = "hiri:content.size" ->
            SetNested(m, K_CONTENT, K_size, JNum(GetProperty(GetProperty(m, K_CONTENT), K_size).n + 1))
      [] field = "hiri:chain" ->
            IF HasProperty(m, K_CHAIN) THEN DeleteProperty(m, K_CHAIN)
            ELSE SetProperty(m, K_CHAIN, ChainLink(GetProperty(m, K_VERSION).n))
      [] field = "hiri:chain.previous" ->
            IF HasProperty(m, K_CHAIN)
            THEN SetNested(m, K_CHAIN, K_previous, FlipLast(GetProperty(GetProperty(m, K_CHAIN), K_previous)))
            ELSE m

\* One field of the manifest is altered; the signature block stays.
TamperField(field) ==
    /\ mpc = "built"
    /\ genesisOut = "none"
    /\ Altered(received, field) # received
    /\ received' = Altered(received, field)
    /\ tamper' = field
    /\ mpc' = "tampered"
    /\ UNCHANGED <<mErr, mKey, mContent, mSigned, signBytes, verifyKey, verifyBytes,
                   verifyOut, genesisOut>>
    /\ UNCHANGED outsideManifest

\* The version number of the manifest is altered; the signature block stays.
TamperVersion(v) ==
    /\ mpc = "built"
    /\ genesisOut = "none"
    /\ v # GetProperty(received, K_VERSION).n
    /\ received' = SetProperty(received, K_VERSION, JNum(v))
    /\ tamper' = "hiri:version"
    /\ mpc' = "tampered"
    /\ UNCHANGED <<mErr, mKey, mContent, mSigned, signBytes, verifyKey, verifyBytes,
                   verifyOut, genesisOut>>
    /\ UNCHANGED outsideManifest

\* The digits of the proof value that are altered: the first and the last
\* digit of the part that names the key, the first and the last digit of the
\* part that names the content.
ProofDigits == {"keyFirst", "keyLast", "contentFirst", "contentLast"}

ProofPosition(proof, digit) ==
    CASE digit = "keyFirst" -> 2
      [] digit = "keyLast" -> 2 * ED25519_PUBLIC_KEY_LENGTH + 1
      [] digit = "contentFirst" -> 2 * ED25519_PUBLIC_KEY_LENGTH + 2
      [] digit = "contentLast" -> Len(proof)

\* One character of the signature's proof value is altered; the rest of the
\* manifest stays.
TamperProof(digit) ==
    /\ mpc = "built"
    /\ genesisOut = "none"
    /\ LET proof == GetProperty(GetProperty(received, K_SIGNATURE), K_proofValue).s
       IN  received' = SetNested(received, K_SIGNATURE, K_proofValue,
                                 JStr(FlipChar(proof, ProofPosition(proof, digit))))
    /\ tamper' = "proofValue"
    /\ mpc' = "tampered"
    /\ UNCHANGED <<mErr, mKey, mContent, mSigned, signBytes, verifyKey, verifyBytes,
                   verifyOut, genesisOut>>
    /\ UNCHANGED outsideManifest

\* The content is altered (another name, another locality, or both) and the
\* manifest is rebuilt for it, steps 3d-3e; the signature block of the
\* manifest built for the original content is attached to it.
ReplaceContent(name, locality) ==
    /\ mpc = "built"
    /\ genesisOut = "none"
    /\ LET key          == Keypairs[mKey]
           authority    == derive(key.publicKey, key.algorithm)
           content      == replacePlaceholder(PersonDocument(name, locality),
                                              authority, key.algorithm)
           contentBytes == canonicalize(content)
           h            == HashRegistry_hash(algos, contentBytes, SHA256)
       IN  /\ content # mContent
           /\ h.ok
           /\ mContent' = content
           /\ received' = SetNested(SetNested(received, K_CONTENT, K_hash, JStr(h.hash)),
                                    K_CONTENT, K_size, JNum(Len(contentBytes)))
    /\ tamper' = "content"
    /\ mpc' = "tampered"
    /\ UNCHANGED <<mErr, mKey, mSigned, signBytes, verifyKey, verifyBytes, verifyOut,
                   genesisOut>>
    /\ UNCHANGED outsideManifest

\* Step 3g: the verifier verifies the manifest at hand against the public key
\* of the k-th keypair.
VerifyManifest(k) ==
    /\ mpc \in {"built", "tampered"}
    /\ verifyKey' = k
    /\ verifyBytes' = verificationBytes(received)
    /\ verifyOut' = verifyManifest(received, Keypairs[k].publicKey)
    /\ mpc' = "verified"
    /\ UNCHANGED <<mErr, mKey, mContent, mSigned, received, tamper, signBytes, genesisOut>>
    /\ UNCHANGED outsideManifest

\* Step 3h: the verifier checks the genesis rule on the manifest at hand.
CheckGenesis ==
    /\ mpc \in {"built", "tampered"}
    /\ genesisOut = "none"
    /\ genesisOut' = IF isGenesisValid(received) THEN "true" ELSE "false"
    /\ UNCHANGED <<mpc, mErr, mKey, mContent, mSigned, received, tamper, signBytes,
                   verifyKey, verifyBytes, verifyOut>>
    /\ UNCHANGED outsideManifest

NextManifest ==
    \/ Compose
    \/ \E name \in Names, locality \in Localities, k \in Keys,
          version \in 1..MaxVersion, withChain \in BOOLEAN :
            CreateManifest(name, locality, k, version, withChain)
    \/ \E field \in TamperFields : TamperField(field)
    \/ \E v \in 0..MaxVersion : TamperVersion(v)
    \/ \E digit \in ProofDigits : TamperProof(digit)
    \/ \E name \in Names, locality \in Localities : ReplaceContent(name, locality)
    \/ \E k \in Keys : VerifyManifest(k)
    \/ CheckGenesis

---------------------------------------------------------------------------
(* Signer.sign and Signer.verify on their own *)

\* The contents signed and verified.
SignerContents == {<<>>, <<104, 105>>, <<104, 120>>}

\* What is done to the proof value before verify gets the signature block:
\* nothing, one digit replaced by another digit, the last digit cut off, one
\* digit replaced by a character that is no digit, the proof value removed.
ProofEdits == {"asSigned", "otherDigit", "cutShort", "noDigit", "removed"}

EditProof(signature, edit) ==
    LET proof == GetProperty(signature, K_proofValue).s
    IN  CASE edit = "asSigned" -> signature
          [] edit = "otherDigit" ->
                SetProperty(signature, K_proofValue, JStr(FlipChar(proof, Len(proof))))
          [] edit = "cutShort" ->
                SetProperty(signature, K_proofValue,
                            JStr(SubSeq(proof, 1, Len(proof) - 1)))
          [] edit = "noDigit" ->
                SetProperty(signature, K_proofValue, JStr([proof EXCEPT ![2] = "z"]))
          [] edit = "removed" -> DeleteProperty(signature, K_proofValue)

\* The public keys verify is given: the public key of a keypair, as it is,
\* with its last byte cut off, or with a byte added.
KeyEdits == {"whole", "shorter", "longer"}

EditKey(publicKey, edit) ==
    CASE edit = "whole" -> publicKey
      [] edit = "shorter" -> SubSeq(publicKey, 1, Len(publicKey) - 1)
      [] edit = "longer" -> Append(publicKey, 0)

NoSigned == [content |-> <<>>, key |-> 0, signature |-> JUndefined]
NoGiven == [content |-> <<>>, key |-> 0, proofEdit |-> "asSigned", keyEdit |-> "whole",
            signature |-> JUndefined, publicKey |-> <<>>]

InitSigner ==
    /\ spc = "idle"
    /\ sigSigned = NoSigned
    /\ sigGiven = NoGiven
    /\ sigOut = [error |-> "none", value |-> FALSE]

\* sign(content, key, timestamp) with the k-th keypair.
Sign(content, k) ==
    /\ spc = "idle"
    /\ spc' = "signed"
    /\ sigSigned' = [content |-> content, key |-> k,
                     signature |-> Signer_sign(content, Keypairs[k], Timestamp(1))]
    /\ UNCHANGED <<sigGiven, sigOut>>
    /\ UNCHANGED outsideSigner

\* verify(content, signature, publicKey) with the signature block that sign
\* returned, its proof value edited, and the public key of the k-th keypair,
\* edited.
Verify(content, proofEdit, k, keyEdit) ==
    /\ spc = "signed"
    /\ spc' = "verified"
    /\ LET signature == EditProof(sigSigned.signature, proofEdit)
           publicKey == EditKey(Keypairs[k].publicKey, keyEdit)
       IN  /\ sigGiven' = [content |-> content, key |-> k, proofEdit |-> proofEdit,
                           keyEdit |-> keyEdit, signature |-> signature,
                           publicKey |-> publicKey]
           /\ sigOut' = Signer_verify(content, signature, publicKey)
    /\ UNCHANGED sigSigned
    /\ UNCHANGED outsideSigner

NextSigner ==
    \/ \E content \in SignerContents, k \in Keys : Sign(content, k)
    \/ \E content \in SignerContents, proofEdit \in ProofEdits, k \in Keys,
          keyEdit \in KeyEdits : Verify(content, proofEdit, k, keyEdit)

---------------------------------------------------------------------------
(* Canonicalization of a document and of a rearranged copy of it *)

K_a == <<"a">>
K_b == <<"b">>
K_n == <<"n">>
K_list == <<"l", "i", "s", "t">>
\* A key of one character of the Basic Multilingual Plane, U+FF5E, and a key
\* of one character beyond it, U+1F600, which is two code units.
K_FULLWIDTH_TILDE == <<U_FF5E>>
K_GRINNING_FACE == <<U_D83D, U_DE00>>

\* The documents given to canonicalize.
CanonDocuments ==
    { JObj(<< <<K_b, JObj(<< <<K_b, JStr(<<"x">>)>>, <<K_a, JNum(2)>>,
                             <<K_n, JNum(3)>> >>)>>,
              <<K_a, JNum(1)>>,
              <<K_FULLWIDTH_TILDE, JArr(<<JNum(1), JNum(2)>>)>>,
              <<K_GRINNING_FACE, JStr(<<"y">>)>> >>),
      JObj(<< <<K_list, JArr(<<JObj(<< <<K_n, JNum(1)>> >>),
                               JObj(<< <<K_n, JNum(2)>> >>)>>)>>,
              <<K_a, JNum(1)>> >>),
      JObj(<< <<K_list, JArr(<<JStr(<<"x">>), JStr(<<"y">>), JNum(3)>>)>>,
              <<K_a, JObj(<< <<K_list, JArr(<<JNum(1), JNum(2)>>)>> >>)>> >>),
      JObj(<< <<K_a, JArr(<<JObj(<< <<K_b, JNum(1)>>, <<K_a, JNum(1)>> >>),
                            JObj(<< <<K_a, JNum(2)>>, <<K_b, JNum(1)>> >>)>>)>>,
              <<K_b, JNum(0)>> >>),
      JObj(<< <<K_a, JNaN>>, <<K_b, JArr(<<JNum(1), JInfinity>>)>> >>),
      JObj(<< <<K_b, JObj(<< <<K_a, JInfinity>>, <<K_b, JNum(1)>> >>)>>,
              <<K_a, JNum(1)>> >>) }

\* The property key of the i-th element of an array: "0" for the first.
IndexKey(i) == NaturalToString(i - 1)

\* A path into a document: the property keys to follow, an array element
\* going by the key of its index.
RECURSIVE GetAt(_, _)
GetAt(value, path) ==
    IF path = <<>> THEN value
    ELSE IF value.t = "obj" THEN GetAt(GetProperty(value, path[1]), Tail(path))
    ELSE GetAt(value.el[CHOOSE i \in 1..Len(value.el) : IndexKey(i) = path[1]],
               Tail(path))

RECURSIVE SetAt(_, _, _)
SetAt(value, path, new) ==
    IF path = <<>> THEN new
    ELSE IF value.t = "obj"
    THEN SetProperty(value, path[1], SetAt(GetProperty(value, path[1]), Tail(path), new))
    ELSE JArr([i \in 1..Len(value.el) |->
                 IF IndexKey(i) = path[1] THEN SetAt(value.el[i], Tail(path), new)
                 ELSE value.el[i]])

RECURSIVE Paths(_)
\* The paths to the values of a document, itself included.
Paths(value) ==
    {<<>>} \cup
    (IF value.t = "obj"
     THEN UNION {{<<value.kv[i][1]>> \o p : p \in Paths(value.kv[i][2])} :
                    i \in 1..Len(value.kv)}
     ELSE IF value.t = "arr"
     THEN UNION {{<<IndexKey(i)>> \o p : p \in Paths(value.el[i])} :
                    i \in 1..Len(value.el)}
     ELSE {})

\* The sequence seq with its elements i and i + 1 exchanged.
SwapAdjacent(seq, i) ==
    [j \in 1..Len(seq) |-> IF j = i THEN seq[i + 1] ELSE IF j = i + 1 THEN seq[i] ELSE seq[j]]

\* The outcome of a call of canonicalize: no statement of the function throws
\* for the values modelled.
canonicalize_call(jsonld) == [error |-> "none", bytes |-> canonicalize(jsonld)]

NoOutcome == [error |-> "none", bytes |-> <<>>]

InitCanon ==
    /\ cpc = "idle"
    /\ docA = JUndefined
    /\ docB = JUndefined
    /\ docEdits = <<>>
    /\ canonA = NoOutcome
    /\ canonB = NoOutcome

GiveDocument(document) ==
    /\ cpc = "idle"
    /\ cpc' = "given"
    /\ docA' = document
    /\ docB' = document
    /\ UNCHANGED <<docEdits, canonA, canonB>>
    /\ UNCHANGED outsideCanon

\* The copy has two neighbouring properties of one of its objects exchanged.
ReorderKeys(path, i) ==
    /\ cpc = "given"
    /\ Len(docEdits) < MaxEdits
    /\ path \in Paths(docB)
    /\ GetAt(docB, path).t = "obj"
    /\ i \in 1..(Len(GetAt(docB, path).kv) - 1)
    /\ docB' = SetAt(docB, path, JObj(SwapAdjacent(GetAt(docB, path).kv, i)))
    /\ docEdits' = Append(docEdits, [kind |-> "keys", at |-> path])
    /\ UNCHANGED <<cpc, docA, canonA, canonB>>
    /\ UNCHANGED outsideCanon

\* The copy has two neighbouring elements of one of its arrays exchanged; the
\* elements of the array are all different.
ReorderElements(path, i) ==
    /\ cpc = "given"
    /\ Len(docEdits) < MaxEdits
    /\ path \in Paths(docB)
    /\ GetAt(docB, path).t = "arr"
    /\ LET el == GetAt(docB, path).el
       IN  /\ i \in 1..(Len(el) - 1)
           /\ \A j, k \in 1..Len(el) : j # k => el[j] # el[k]
           /\ docB' = SetAt(docB, path, JArr(SwapAdjacent(el, i)))
    /\ docEdits' = Append(docEdits, [kind |-> "elements", at |-> path])
    /\ UNCHANGED <<cpc, docA, canonA, canonB>>
    /\ UNCHANGED outsideCanon

\* canonicalize is called on the document and on the copy.
Canonicalize ==
    /\ cpc = "given"
    /\ cpc' = "done"
    /\ canonA' = canonicalize_call(docA)
    /\ canonB' = canonicalize_call(docB)
    /\ UNCHANGED <<docA, docB, docEdits>>
    /\ UNCHANGED outsideCanon

CanonPaths == UNION {Paths(d) : d \in CanonDocuments}

NextCanon ==
    \/ \E document \in CanonDocuments : GiveDocument(document)
    \/ \E path \in CanonPaths, i \in 1..3 : ReorderKeys(path, i)
    \/ \E path \in CanonPaths, i \in 1..3 : ReorderElements(path, i)
    \/ Canonicalize

---------------------------------------------------------------------------
(* The Key Document: built and self-signed for a keypair, it reaches a      *)
(* verifier as it was built or altered on the way, and is validated.        *)

NoEdit == [kind |-> "none", key |-> 0]

InitKeyDocument ==
    /\ kpc = "idle"
    /\ kdKey = 0
    /\ kdBuilt = JUndefined
    /\ kdGiven = JUndefined
    /\ kdEdit = NoEdit
    /\ kdOut = [error |-> "none", value |-> FALSE]

\* Step 3i for the k-th keypair at the n-th instant.
BuildKeyDocument(k, n) ==
    /\ kpc = "idle"
    /\ kpc' = "built"
    /\ kdKey' = k
    /\ kdBuilt' = signKeyDocument(buildKeyDocument(Keypairs[k], Timestamp(n)),
                                  Keypairs[k], Timestamp(n))
    /\ kdGiven' = kdBuilt'
    /\ UNCHANGED <<kdEdit, kdOut>>
    /\ UNCHANGED outsideKeyDocument

\* The public key listed in the Key Document is replaced by the public key of
\* another keypair.
ReplaceEmbeddedKey(k) ==
    /\ kpc = "built"
    /\ k # kdKey
    /\ kdGiven' = SetAt(kdGiven, <<K_ACTIVE_KEYS, IndexKey(1), K_publicKeyMultibase>>,
                        JStr(publicKeyMultibase(Keypairs[k].publicKey)))
    /\ kdEdit' = [kind |-> "publicKey", key |-> k]
    /\ kpc' = "edited"
    /\ UNCHANGED <<kdKey, kdBuilt, kdOut>>
    /\ UNCHANGED outsideKeyDocument

\* The active key listed in the Key Document is replaced by the entry of
\* another keypair.
ReplaceActiveKey(k) ==
    /\ kpc = "built"
    /\ k # kdKey
    /\ kdGiven' = SetAt(kdGiven, <<K_ACTIVE_KEYS, IndexKey(1)>>,
                        activeKeyEntry(Keypairs[k],
                            GetAt(kdGiven, <<K_ACTIVE_KEYS, IndexKey(1), K_validFrom>>).s))
    /\ kdEdit' = [kind |-> "activeKey", key |-> k]
    /\ kpc' = "edited"
    /\ UNCHANGED <<kdKey, kdBuilt, kdOut>>
    /\ UNCHANGED outsideKeyDocument

\* One character of the proof value of the Key Document's signature is
\* altered.
AlterKeyDocumentProof(digit) ==
    /\ kpc = "built"
    /\ LET proof == GetAt(kdGiven, <<K_SIGNATURE, K_proofValue>>).s
       IN  kdGiven' = SetAt(kdGiven, <<K_SIGNATURE, K_proofValue>>,
                            JStr(FlipChar(proof, ProofPosition(proof, digit))))
    /\ kdEdit' = [kind |-> "proofValue", key |-> 0]
    /\ kpc' = "edited"
    /\ UNCHANGED <<kdKey, kdBuilt, kdOut>>
    /\ UNCHANGED outsideKeyDocument

\* The verifier validates the Key Document at hand.
ValidateKeyDocument ==
    /\ kpc \in {"built", "edited"}
    /\ kpc' = "validated"
    /\ kdOut' = verifyKeyDocument(kdGiven)
    /\ UNCHANGED <<kdKey, kdBuilt, kdGiven, kdEdit>>
    /\ UNCHANGED outsideKeyDocument

NextKeyDocument ==
    \/ \E k \in Keys, n \in 1..MaxTimestamp : BuildKeyDocument(k, n)
    \/ \E k \in Keys : ReplaceEmbeddedKey(k)
    \/ \E k \in Keys : ReplaceActiveKey(k)
    \/ \E digit \in ProofDigits : AlterKeyDocumentProof(digit)
    \/ ValidateKeyDocument

---------------------------------------------------------------------------
(* Authority derivation: derive is called for public keys, a URI is built   *)
(* under the authority it returned, and the text of the URI is parsed.      *)

\* A public key whose hash is 32 zero bytes.
PublicKeyWithZeroHash ==
    [i \in 1..ED25519_PUBLIC_KEY_LENGTH |-> ((256 - ((13 * i + 32) % 256)) * 23) % 256]

\* "p256"
P256 == <<"p", "2", "5", "6">>

DerivePublicKeys == {Keypairs[k].publicKey : k \in Keys} \cup {PublicKeyWithZeroHash}

DeriveAlgorithms == {ED25519, P256}

\* Types without a path separator, the empty one among them.
BuildTypes == {TYPE_KEY, TYPE_DATA, <<>>}

\* Identifiers that are not empty: plain, with a fragment, with a path
\* separator, with a line feed.
BuildIdentifiers ==
    {KEYDOC_MAIN, KEYDOC_MAIN \o <<"#">> \o KEY_1, PERSON_001,
     <<"a", SLASH, "b">>, <<"a", LF, "b">>}

NoGivenURI == [authority |-> NoStr, type |-> NoStr, identifier |-> NoStr]

InitAuthority ==
    /\ apc = "idle"
    /\ aCalls = <<>>
    /\ aGiven = NoGivenURI
    /\ aBuilt = NoObj
    /\ aParsed = [ok |-> FALSE, error |-> "none", value |-> NoObj]

\* derive(publicKey, algorithm)
Derive(publicKey, algorithm) ==
    /\ apc \in {"idle", "derived"}
    /\ Len(aCalls) < MaxDeriveCalls
    /\ aCalls' = Append(aCalls, [publicKey |-> publicKey, algorithm |-> algorithm,
                                 authority |-> derive(publicKey, algorithm)])
    /\ apc' = "derived"
    /\ UNCHANGED <<aGiven, aBuilt, aParsed>>
    /\ UNCHANGED outsideAuthority

\* buildURI(authority, type, identifier) under the authority that the last
\* call of derive returned.
BuildURI(type, identifier) ==
    /\ apc = "derived"
    /\ LET authority == aCalls[Len(aCalls)].authority
       IN  /\ aGiven' = [authority |-> authority, type |-> type,
                         identifier |-> identifier]
           /\ aBuilt' = buildURI(authority, type, identifier)
    /\ apc' = "built"
    /\ UNCHANGED <<aCalls, aParsed>>
    /\ UNCHANGED outsideAuthority

\* HiriURI.parse(uri.toString()) of the URI built.
ParseBuilt ==
    /\ apc = "built"
    /\ aParsed' = HiriURI_parse(HiriURI_toString(aBuilt))
    /\ apc' = "parsed"
    /\ UNCHANGED <<aCalls, aGiven, aBuilt>>
    /\ UNCHANGED outsideAuthority

\* HiriURI.parse of the verification method of the k-th keypair,
\* "hiri://<authority>/key/main#<keyId>".
ParseVerificationMethod(k) ==
    /\ apc = "derived"
    /\ aCalls[Len(aCalls)].publicKey = Keypairs[k].publicKey
    /\ aCalls[Len(aCalls)].algorithm = Keypairs[k].algorithm
    /\ aGiven' = [authority |-> aCalls[Len(aCalls)].authority, type |-> TYPE_KEY,
                  identifier |-> KEYDOC_MAIN]
    /\ aBuilt' = buildURI(aCalls[Len(aCalls)].authority, TYPE_KEY, KEYDOC_MAIN)
    /\ aParsed' = HiriURI_parse(verificationMethod(Keypairs[k]))
    /\ apc' = "parsedMethod"
    /\ UNCHANGED aCalls
    /\ UNCHANGED outsideAuthority

NextAuthority ==
    \/ \E publicKey \in DerivePublicKeys, algorithm \in DeriveAlgorithms :
          Derive(publicKey, algorithm)
    \/ \E type \in BuildTypes, identifier \in BuildIdentifiers : BuildURI(type, identifier)
    \/ ParseBuilt
    \/ \E k \in Keys : ParseVerificationMethod(k)

---------------------------------------------------------------------------
(* Signer.verify called repeatedly and by callers that interleave *)

\* The callers of verify.  verify returns a promise: a call is pending from
\* the moment it is made until the platform's verification settles it, and
\* other calls are made and settled meanwhile.
Callers == {"first", "second"}

NoArguments == [content |-> <<>>, signature |-> JUndefined, publicKey |-> <<>>]

InitVerifyCalls ==
    /\ vpc = "idle"
    /\ vfySigned = JUndefined
    /\ vfyGiven = NoArguments
    /\ vfyCalls = [c \in Callers |-> [pc |-> "idle", args |-> NoArguments, outs |-> <<>>]]

\* sign(content, key, timestamp) with the k-th keypair.
SignForCallers(content, k) ==
    /\ vpc = "idle"
    /\ vpc' = "signed"
    /\ vfySigned' = Signer_sign(content, Keypairs[k], Timestamp(1))
    /\ UNCHANGED <<vfyGiven, vfyCalls>>
    /\ UNCHANGED outsideVerifyCalls

\* The content, signature block and public key that every caller passes.
GiveArguments(content, proofEdit, k, keyEdit) ==
    /\ vpc = "signed"
    /\ vpc' = "given"
    /\ vfyGiven' = [content |-> content,
                    signature |-> EditProof(vfySigned, proofEdit),
                    publicKey |-> EditKey(Keypairs[k].publicKey, keyEdit)]
    /\ UNCHANGED <<vfySigned, vfyCalls>>
    /\ UNCHANGED outsideVerifyCalls

\* A caller calls verify(content, signature, publicKey); the call is pending.
VerifyCall(c) ==
    /\ vpc = "given"
    /\ vfyCalls[c].pc = "idle"
    /\ Len(vfyCalls[c].outs) < MaxVerifyCalls
    /\ vfyCalls' = [vfyCalls EXCEPT ![c].pc = "pending", ![c].args = vfyGiven]
    /\ UNCHANGED <<vpc, vfySigned, vfyGiven>>
    /\ UNCHANGED outsideVerifyCalls

\* The pending call of a caller settles with verify's result.
VerifyReturn(c) ==
    /\ vfyCalls[c].pc = "pending"
    /\ LET args == vfyCalls[c].args
           out == Signer_verify(args.content, args.signature, args.publicKey)
       IN  vfyCalls' = [vfyCalls EXCEPT ![c].pc = "idle",
                                        ![c].outs = Append(@, out)]
    /\ UNCHANGED <<vpc, vfySigned, vfyGiven>>
    /\ UNCHANGED outsideVerifyCalls

NextVerifyCalls ==
    \/ \E content \in SignerContents, k \in Keys : SignForCallers(content, k)
    \/ \E content \in SignerContents, proofEdit \in ProofEdits, k \in Keys,
          keyEdit \in KeyEdits : GiveArguments(content, proofEdit, k, keyEdit)
    \/ \E c \in Callers : VerifyCall(c)
    \/ \E c \in Callers : VerifyReturn(c)

---------------------------------------------------------------------------
(* What the engine hands out: signature blocks, manifests, KeyDocuments *)

InitOutputs ==
    /\ opc = "idle"
    /\ outKey = 0
    /\ outSignature = JUndefined
    /\ outManifest = JUndefined
    /\ outKeyDocument = JUndefined

\* The caller generates the k-th keypair and signs with it from now on.
TakeKey(k) ==
    /\ opc = "idle"
    /\ opc' = "keyed"
    /\ outKey' = k
    /\ UNCHANGED <<outSignature, outManifest, outKeyDocument>>
    /\ UNCHANGED outsideOutputs

\* sign(content, key, timestamp)
ProduceSignature(content) ==
    /\ opc = "keyed"
    /\ outSignature = JUndefined
    /\ outSignature' = Signer_sign(content, Keypairs[outKey], Timestamp(1))
    /\ UNCHANGED <<opc, outKey, outManifest, outKeyDocument>>
    /\ UNCHANGED outsideOutputs

\* Steps 3d-3f: content prepared, hashed, manifest built and signed.  Nothing
\* is built while the registry has no SHA-256: hash throws.
ProduceManifest(name, version, withChain) ==
    /\ opc = "keyed"
    /\ outManifest = JUndefined
    /\ LET key          == Keypairs[outKey]
           authority    == derive(key.publicKey, key.algorithm)
           content      == replacePlaceholder(PersonDocument(name, PORTLAND),
                                              authority, key.algorithm)
           contentBytes == canonicalize(content)
           h            == HashRegistry_hash(algos, contentBytes, SHA256)
           unsigned     == buildManifest(authority, h.hash, Len(contentBytes), version,
                                         IF withChain THEN ChainLink(version)
                                         ELSE JUndefined,
                                         Timestamp(1))
       IN  /\ h.ok
           /\ outManifest' = signManifest(unsigned, key, Timestamp(1))
    /\ UNCHANGED <<opc, outKey, outSignature, outKeyDocument>>
    /\ UNCHANGED outsideOutputs

\* The KeyDocument of the signing key, built and signed.
ProduceKeyDocument(n) ==
    /\ opc = "keyed"
    /\ outKeyDocument = JUndefined
    /\ outKeyDocument' = signKeyDocument(buildKeyDocument(Keypairs[outKey], Timestamp(n)),
                                         Keypairs[outKey], Timestamp(n))
    /\ UNCHANGED <<opc, outKey, outSignature, outManifest>>
    /\ UNCHANGED outsideOutputs

NextOutputs ==
    \/ Compose
    \/ \E k \in Keys : TakeKey(k)
    \/ \E content \in SignerContents : ProduceSignature(content)
    \/ \E name \in Names, version \in 1..MaxVersion, withChain \in BOOLEAN :
          ProduceManifest(name, version, withChain)
    \/ \E n \in 1..2 : ProduceKeyDocument(n)

---------------------------------------------------------------------------
(* Two manifests built from one content *)

NoBuild == [key |-> 0, version |-> 0, withChain |-> FALSE, timestamp |-> 0,
            manifest |-> JUndefined]

\* What the second build changes against the first.
ManifestChanges == {"version", "chain", "timestamp", "key", "all"}

InitContentHash ==
    /\ hpc = "idle"
    /\ hContent = JUndefined
    /\ hFirst = NoBuild
    /\ hSecond = NoBuild

\* Step 3d, first half: the fixture with the authority of the k-th keypair
\* in place of the placeholder.
PrepareContent(name, k) ==
    /\ hpc = "idle"
    /\ SHA256 \in DOMAIN algos
    /\ hpc' = "prepared"
    /\ hContent' = replacePlaceholder(PersonDocument(name, PORTLAND),
                                      derive(Keypairs[k].publicKey, Keypairs[k].algorithm),
                                      Keypairs[k].algorithm)
    /\ UNCHANGED <<hFirst, hSecond>>
    /\ UNCHANGED outsideContentHash

\* Steps 3d-3f on content already prepared: canonicalized, hashed, the
\* manifest built for the version, chain link and timestamp given and signed
\* with the k-th keypair.
manifestOf(content, k, version, withChain, n) ==
    LET key          == Keypairs[k]
        contentBytes == canonicalize(content)
        h            == HashRegistry_hash(algos, contentBytes, SHA256)
        unsigned     == buildManifest(derive(key.publicKey, key.algorithm), h.hash,
                                      Len(contentBytes), version,
                                      IF withChain THEN ChainLink(version)
                                      ELSE JUndefined,
                                      Timestamp(n))
    IN  signManifest(unsigned, key, Timestamp(n))

BuildFirst(k, version, withChain) ==
    /\ hpc = "prepared"
    /\ hpc' = "first"
    /\ hFirst' = [key |-> k, version |-> version, withChain |-> withChain,
                  timestamp |-> 1,
                  manifest |-> manifestOf(hContent, k, version, withChain, 1)]
    /\ UNCHANGED <<hContent, hSecond>>
    /\ UNCHANGED outsideContentHash

BuildSecond(change) ==
    /\ hpc = "first"
    /\ hpc' = "second"
    /\ LET k         == IF change \in {"key", "all"} THEN (hFirst.key % NumKeys) + 1
                        ELSE hFirst.key
           version   == IF change \in {"version", "all"}
                        THEN (hFirst.version % MaxVersion) + 1
                        ELSE hFirst.version
           withChain == IF change \in {"chain", "all"} THEN ~hFirst.withChain
                        ELSE hFirst.withChain
           n         == IF change \in {"timestamp", "all"} THEN 2 ELSE 1
       IN  hSecond' = [key |-> k, version |-> version, withChain |-> withChain,
                       timestamp |-> n,
                       manifest |-> manifestOf(hContent, k, version, withChain, n)]
    /\ UNCHANGED <<hContent, hFirst>>
    /\ UNCHANGED outsideContentHash

NextContentHash ==
    \/ Compose
    \/ \E name \in Names, k \in Keys : PrepareContent(name, k)
    \/ \E k \in Keys, version \in 1..MaxVersion, withChain \in BOOLEAN :
          BuildFirst(k, version, withChain)
    \/ \E change \in ManifestChanges : BuildSecond(change)

---------------------------------------------------------------------------
(* Creating a manifest and updating it *)

\* The chain link of a manifest that follows another: the hash of the one
\* before it.
chainLinkTo(prior) ==
    JObj(<< <<K_previous, JStr(SHA256Algorithm_hash(canonicalize(prior)))>> >>)

\* Steps 3d-3f for content given: the genesis manifest, version 1, no chain
\* link.
createManifest(content, key, timestamp) ==
    LET contentBytes == canonicalize(content)
    IN  signManifest(buildManifest(derive(key.publicKey, key.algorithm),
                                   SHA256Algorithm_hash(contentBytes),
                                   Len(contentBytes), 1, JUndefined, timestamp),
                     key, timestamp)

\* An update that numbers the new manifest but leaves the chain link out.
updateManifest_Unchained(prior, content, key, timestamp) ==
    LET contentBytes == canonicalize(content)
    IN  signManifest(buildManifest(derive(key.publicKey, key.algorithm),
                                   SHA256Algorithm_hash(contentBytes),
                                   Len(contentBytes),
                                   GetProperty(prior, K_VERSION).n + 1,
                                   JUndefined, timestamp),
                     key, timestamp)

\* New content for a manifest that exists: the next version, with a chain
\* link to the manifest it replaces.
updateManifest(prior, content, key, timestamp) ==
    LET contentBytes == canonicalize(content)
    IN  signManifest(buildManifest(derive(key.publicKey, key.algorithm),
                                   SHA256Algorithm_hash(contentBytes),
                                   Len(contentBytes),
                                   GetProperty(prior, K_VERSION).n + 1,
                                   chainLinkTo(prior), timestamp),
                     key, timestamp)

preparedContent(name, locality, key) ==
    replacePlaceholder(PersonDocument(name, locality),
                       derive(key.publicKey, key.algorithm), key.algorithm)

InitLifecycle == produced = <<>>

CreateOperation(name, locality, k) ==
    /\ produced = <<>>
    /\ LET content == preparedContent(name, locality, Keypairs[k])
       IN  produced' = << [key |-> k, content |-> content,
                           manifest |-> createManifest(content, Keypairs[k],
                                                       Timestamp(1))] >>
    /\ UNCHANGED outsideLifecycle

UpdateOperation(name, locality) ==
    /\ produced # <<>>
    /\ Len(produced) <= MaxUpdates
    /\ LET last    == produced[Len(produced)]
           key     == Keypairs[last.key]
           content == preparedContent(name, locality, key)
       IN  produced' = Append(produced,
               [key |-> last.key, content |-> content,
                manifest |-> updateManifest(last.manifest, content, key,
                                            Timestamp(Len(produced) + 1))])
    /\ UNCHANGED outsideLifecycle

NextLifecycle ==
    \/ \E name \in Names, locality \in Localities, k \in Keys :
          CreateOperation(name, locality, k)
    \/ \E name \in Names, locality \in Localities : UpdateOperation(name, locality)

---------------------------------------------------------------------------
(* A hash call pending in the provider while register calls run *)

NoHashCall == [pc |-> "none", content |-> <<>>, prefix |-> NoStr, algo |-> NoAlgo,
               out |-> NoStr]

InitPendingHash ==
    /\ hashCall = NoHashCall
    /\ atCall = <<>>

\* hash(content, prefix) up to its return statement: the function body runs
\* when it is called, const algo = this.algos.get(prefix) first; without an
\* algorithm it throws, with one it calls algo.hash(content) and the promise
\* is pending.
HashCall(content, prefix) ==
    /\ hashCall.pc = "none"
    /\ atCall' = algos
    /\ IF prefix \in DOMAIN algos
       THEN hashCall' = [pc |-> "pending", content |-> content, prefix |-> prefix,
                         algo |-> algos[prefix], out |-> NoStr]
       ELSE hashCall' = [pc |-> "thrown", content |-> content, prefix |-> prefix,
                         algo |-> NoAlgo, out |-> NoStr]
    /\ UNCHANGED outsidePendingHash

\* A settling that asks the registry for the algorithm again.
HashSettle_LooksUpAgain ==
    /\ hashCall.pc = "pending"
    /\ hashCall' = [hashCall EXCEPT
                       !.pc = "returned",
                       !.out = HashAlgorithm_hash(algos[hashCall.prefix], hashCall.content)]
    /\ UNCHANGED atCall
    /\ UNCHANGED outsidePendingHash

\* The provider is done: the promise of algo.hash(content) settles with the
\* digest.
HashSettle ==
    /\ hashCall.pc = "pending"
    /\ hashCall' = [hashCall EXCEPT
                       !.pc = "returned",
                       !.out = HashAlgorithm_hash(hashCall.algo, hashCall.content)]
    /\ UNCHANGED atCall
    /\ UNCHANGED outsidePendingHash

\* register runs at any time, a hash call pending or not.
NextPendingHash ==
    \/ \E a \in Algorithms : Register(a)
    \/ \E content \in HashContents, prefix \in {SHA256, BLAKE3} : HashCall(content, prefix)
    \/ HashSettle

---------------------------------------------------------------------------
(* Canonicalization of a document and of a copy with one field changed *)

\* The values a field of the copy is set to.
NewValues == {JNum(7), JStr(<<"z">>)}

Front(seq) == SubSeq(seq, 1, Len(seq) - 1)

\* The copy has the value at a path replaced by another value.
ChangeValue(path, new) ==
    /\ cpc = "given"
    /\ docEdits = <<>>
    /\ path # <<>>
    /\ path \in Paths(docB)
    /\ GetAt(docB, path) # new
    /\ docB' = SetAt(docB, path, new)
    /\ docEdits' = <<[kind |-> "value", at |-> path]>>
    /\ UNCHANGED <<cpc, docA, canonA, canonB>>
    /\ UNCHANGED outsideCanon

\* The copy has the property at a path deleted from its object.
RemoveField(path) ==
    /\ cpc = "given"
    /\ docEdits = <<>>
    /\ path # <<>>
    /\ path \in Paths(docB)
    /\ GetAt(docB, Front(path)).t = "obj"
    /\ docB' = SetAt(docB, Front(path),
                     DeleteProperty(GetAt(docB, Front(path)), path[Len(path)]))
    /\ docEdits' = <<[kind |-> "removed", at |-> path]>>
    /\ UNCHANGED <<cpc, docA, canonA, canonB>>
    /\ UNCHANGED outsideCanon

NextCanonContent ==
    \/ \E document \in CanonDocuments : GiveDocument(document)
    \/ \E path \in CanonPaths, new \in NewValues : ChangeValue(path, new)
    \/ \E path \in CanonPaths : RemoveField(path)
    \/ Canonicalize

---------------------------------------------------------------------------
(* Specifications *)

Init == InitURI /\ InitRegistry /\ InitManifest /\ InitCanon /\ InitSigner
            /\ InitKeyDocument
            /\ InitAuthority
            /\ InitVerifyCalls
            /\ InitOutputs
            /\ InitContentHash
            /\ InitLifecycle
            /\ InitPendingHash

SpecURI == Init /\ [][NextURI]_vars

SpecRegistry == Init /\ [][NextRegistry]_vars

SpecManifest == Init /\ [][NextManifest]_vars
SpecCanon == Init /\ [][NextCanon]_vars
SpecSigner == Init /\ [][NextSigner]_vars
SpecKeyDocument == Init /\ [][NextKeyDocument]_vars
SpecCanonContent == Init /\ [][NextCanonContent]_vars
SpecPendingHash == Init /\ [][NextPendingHash]_vars
SpecLifecycle == Init /\ [][NextLifecycle]_vars
SpecContentHash == Init /\ [][NextContentHash]_vars
SpecOutputs == Init /\ [][NextOutputs]_vars
SpecVerifyCalls == Init /\ [][NextVerifyCalls]_vars
SpecAuthority == Init /\ [][NextAuthority]_vars

---------------------------------------------------------------------------
(* Properties of the URI module *)

\* s is scheme://<authority>/<type>/<identifier> with the three parts a, t, i.
IsHiriForm(s, a, t, i) ==
    /\ s = HIRI_SCHEME \o a \o <<SLASH>> \o t \o <<SLASH>> \o i
    /\ a # <<>> /\ ~Contains(a, SLASH)
    /\ t # <<>> /\ ~Contains(t, SLASH)
    /\ i # <<>>

\* s can be cut into the scheme, an authority, a type and an identifier.
MatchesHiriForm(s) ==
    \E x \in 1..Len(s), y \in 1..Len(s) :
        LET n == Len(HIRI_SCHEME)
        IN  /\ n + x + y + 2 < Len(s)
            /\ IsHiriForm(s, SubSeq(s, n + 1, n + x),
                          SubSeq(s, n + x + 2, n + x + y + 1),
                          SubSeq(s, n + x + y + 3, Len(s)))

\* The components a string form can carry back: authority and type non-empty
\* and free of path separators, identifier non-empty and free of line
\* terminators.
ValidComponents(id) ==
    /\ id.authority # <<>> /\ ~Contains(id.authority, SLASH)
    /\ id.type # <<>> /\ ~Contains(id.type, SLASH)
    /\ id.identifier # <<>>
    /\ \A c \in LineTerminators : ~Contains(id.identifier, c)

ConstructedThenRoundTripped ==
    uriOrig.kind = "obj" /\ uriHist = <<"toString", "parse">>

ParsedThenPrinted ==
    uriOrig.kind = "str" /\ uriHist = <<"parse", "toString">>

JustParsed ==
    uriOrig.kind = "str" /\ uriHist = <<"parse">>

\* C7, as claimed: for every identifier value that can be constructed,
\* HiriURI.parse(id.toString()) yields an identifier with the same authority,
\* type and identifier.
C7_RoundTripOfEveryConstructedId ==
    ConstructedThenRoundTripped => (uriErr = "none" /\ uriObj = uriOrig.obj)

\* C7, amended: for every identifier value whose authority and type are
\* non-empty and hold no "/" and whose identifier is non-empty and holds no
\* line terminator, HiriURI.parse(id.toString()) yields an identifier with
\* the same authority, type and identifier.
C7_RoundTripOfValidId ==
    (ConstructedThenRoundTripped /\ ValidComponents(uriOrig.obj))
        => (uriErr = "none" /\ uriObj = uriOrig.obj)

C7_Witness ==
    /\ ConstructedThenRoundTripped
    /\ ValidComponents(uriOrig.obj)
    /\ Contains(uriOrig.obj.identifier, SLASH)
    /\ uriObj = uriOrig.obj

\* C8: for every string s that HiriURI.parse accepts, parse(s).toString()
\* equals s character for character.
C8_ToStringInvertsParse ==
    ParsedThenPrinted => uriStr = uriOrig.str

C8_Witness ==
    /\ ParsedThenPrinted
    /\ Contains(uriObj.identifier, SLASH)
    /\ Contains(uriObj.authority, LF)

\* C9: HiriURI.parse fails with InvalidURI on every string that is not of the
\* form scheme://<authority>/<type>/<identifier>; when it succeeds, the
\* authority and the type are non-empty and hold no path separator, and the
\* identifier is the whole non-empty remainder of the string.
C9_ParseRejectsOrSplits ==
    JustParsed =>
        /\ uriErr \in {"none", "InvalidURI"}
        /\ ~MatchesHiriForm(uriOrig.str) => uriErr = "InvalidURI"
        /\ uriErr = "none" =>
              IsHiriForm(uriOrig.str, uriObj.authority, uriObj.type, uriObj.identifier)

C9_Witness ==
    /\ JustParsed
    /\ uriErr = "InvalidURI"
    /\ StartsWith(uriOrig.str, HIRI_SCHEME \o <<"a", SLASH, "a", SLASH>>)

---------------------------------------------------------------------------
(* Properties of the registry *)

\* The text of d before its first ":" (all of d when it holds none).
IsPrefixBeforeColon(p, d) ==
    /\ StartsWith(d, p)
    /\ ~Contains(p, COLON)
    /\ (Len(p) < Len(d) => d[Len(p) + 1] = COLON)

\* The registrations, in call order, of algorithms that announce prefix p.
RegisteredUnder(p) == SelectSeq(regLog, LAMBDA a : a.prefix = p)

\* C10: after any sequence of registrations, resolve(d) returns the algorithm
\* currently registered (the one registered last) under the text of d before
\* its first ":", and fails with UnsupportedHashAlgorithm when no algorithm
\* is registered under that prefix.
C10_ResolveDispatchesOnPrefix ==
    regOut.op = "resolve" =>
        \A p \in {SubSeq(regOut.arg, 1, n) : n \in 0..Len(regOut.arg)} :
            IsPrefixBeforeColon(p, regOut.arg) =>
                LET r == RegisteredUnder(p)
                IN  IF r = <<>>
                    THEN ~regOut.ok /\ regOut.error = "UnsupportedHashAlgorithm"
                    ELSE regOut.ok /\ regOut.algo = r[Len(r)]

C10_Witness ==
    /\ regOut.op = "resolve"
    /\ regOut.ok
    /\ Len(RegisteredUnder(SHA256)) > 1
    /\ regOut.algo = HashAlgorithm(SHA256, 2)
    /\ Contains(regOut.arg, COLON)

\* C11: register never fails; a prefix maps to the algorithm registered last
\* under it, so a second algorithm under a used prefix replaces the first;
\* and registering again the algorithm that was registered just before
\* leaves the registry as it was.
C11_RegisterOverwritesAndIsIdempotent ==
    /\ [](regOut.op = "register" => (regOut.ok /\ regOut.error = "none"))
    /\ [](\A p \in DOMAIN algos :
            /\ RegisteredUnder(p) # <<>>
            /\ algos[p] = RegisteredUnder(p)[Len(RegisteredUnder(p))])
    /\ [][(/\ regLog # <<>>
           /\ Len(regLog') = Len(regLog) + 1
           /\ regLog'[Len(regLog')] = regLog[Len(regLog)]) => algos' = algos]_vars

C11_Witness ==
    /\ Len(regLog) = 3
    /\ regLog[1] = regLog[2]
    /\ regLog[3].prefix = regLog[1].prefix
    /\ regLog[3] # regLog[1]
    /\ algos[regLog[3].prefix] = regLog[3]
    /\ regOut.op = "register"

\* C12, as stated: once a prefix holds an algorithm, no step changes the
\* algorithm the registry holds for it.
C12_RegisteredAlgorithmNeverChanges ==
    [][\A p \in DOMAIN algos : p \in DOMAIN algos' /\ algos'[p] = algos[p]]_vars

\* C12: once a prefix holds an algorithm, the prefix stays registered, and
\* the algorithm the registry holds for it changes only in a register call
\* for that same prefix: resolve, hash and the registrations under other
\* prefixes leave it as it is.
C12_RegisteredAlgorithmChangesOnlyByRegister ==
    [][\A p \in DOMAIN algos :
          /\ p \in DOMAIN algos'
          /\ algos'[p] # algos[p] =>
                (regOut'.op = "register" /\ regOut'.arg = p /\ algos'[p] = regOut'.algo)]_vars

C12_Witness ==
    /\ Len(regLog) = 2
    /\ regLog[1].prefix = SHA256
    /\ regLog[2].prefix = BLAKE3
    /\ regOut.op = "resolve"
    /\ regOut.ok
    /\ regOut.algo = regLog[1]

\* C13: the prefixes the registry holds are those of the algorithms passed to
\* register, none in a new registry; and as long as register has not been
\* called, every resolve and every hash call fails, the hash call that gives
\* no prefix included.
C13_NothingBuiltIn ==
    /\ DOMAIN algos = {regLog[i].prefix : i \in 1..Len(regLog)}
    /\ (regLog = <<>> /\ regOut.op \in {"resolve", "hash"})
          => (~regOut.ok /\ regOut.error # "none")

C13_Witness ==
    /\ regLog = <<>>
    /\ regOut.op = "hash"
    /\ regOut.arg = NoStr
    /\ ~regOut.ok

\* C26: a resolve call and a hash call leave the registry's mapping from
\* prefixes to algorithms as it was, whether they return or throw for a prefix
\* that is not registered; a step that changes the mapping is a register call.
C26_OnlyRegisterChangesMapping ==
    [][/\ regOut'.op \in {"resolve", "hash"} => algos' = algos
       /\ algos' # algos => regOut'.op = "register"]_vars

\* A hash call has failed for a prefix that is not registered, in a registry
\* that holds algorithms under two other prefixes.
C26_Witness ==
    /\ regOut.op = "hash"
    /\ ~regOut.ok
    /\ regOut.arg = BLAKE3
    /\ Cardinality(DOMAIN algos) = 2
    /\ BLAKE3 \notin DOMAIN algos

---------------------------------------------------------------------------
(* Properties of the manifest protocol *)

\* manifest.version and manifest.chain of the manifest at hand
ReceivedVersion == GetProperty(received, K_VERSION).n

ReceivedHasChain == HasProperty(received, K_CHAIN)

\* The manifest at hand is the one the builder produced, verified against
\* the public key of the keypair that signed it.
VerifiedAsBuilt == mpc = "verified" /\ tamper = "none" /\ verifyKey = mKey

\* The authority of each keypair.
KeyAuthority ==
    [k \in Keys |-> derive(Keypairs[k].publicKey, Keypairs[k].algorithm)]

\* The content a signature's proof value names: the bytes the Signer signed.
SignedMessage(m) ==
    Drop(Multibase_decode(GetProperty(GetProperty(m, K_SIGNATURE), K_proofValue).s),
         ED25519_PUBLIC_KEY_LENGTH)

\* "hiri:signature" occurs in the text the bytes encode.
MentionsSignature(bytes) == String_indexOf(bytes, TextEncoder_encode(K_SIGNATURE)) # 0

\* C1: for a manifest of version 1 or more, isGenesisValid returns false
\* exactly when the version is above 1 and the chain link is absent; version
\* 1 with or without a chain link and a higher version with a chain link are
\* valid.
C1_GenesisRule ==
    (genesisOut # "none" /\ ReceivedVersion >= 1)
        => (genesisOut = "false" <=> (ReceivedVersion > 1 /\ ~ReceivedHasChain))

C1_Witness ==
    /\ genesisOut = "false"
    /\ ReceivedVersion = 2
    /\ ~ReceivedHasChain

\* C2: whatever the content and the keypair, the manifest the construction
\* protocol produces verifies as true against the public key of the key that
\* signed it.
C2_BuiltManifestVerifies ==
    VerifiedAsBuilt => verifyOut = [error |-> "none", value |-> TRUE]

C2_Witness ==
    /\ VerifiedAsBuilt
    /\ verifyOut.value
    /\ mKey = NumKeys
    /\ GetProperty(mContent, K_SCHEMA_NAME).s = DANA_REEVEZ

\* C3: once a field of a signed manifest, or the content it was built for,
\* has been altered, verification with the original signature returns false.
C3_AlteredContentFailsVerification ==
    (mpc = "verified" /\ tamper \notin {"none", "proofValue"})
        => verifyOut.value = FALSE

\* C4: once a character of the signature's proof value has been altered,
\* verification of the otherwise unmodified manifest returns false.
C4_AlteredProofFailsVerification ==
    (mpc = "verified" /\ tamper = "proofValue")
        => verifyOut = [error |-> "none", value |-> FALSE]

C4_Witness ==
    /\ mpc = "verified"
    /\ tamper = "proofValue"
    /\ verifyKey = mKey
    /\ DeleteProperty(received, K_SIGNATURE) = DeleteProperty(mSigned, K_SIGNATURE)
    /\ received # mSigned

\* C5: the bytes handed to the Signer are canonicalize(manifest without its
\* signature field), in signing and in verification alike; the signature
\* field is not in them; and for one manifest both compute the same bytes.
C5_SignedBytesExcludeSignature ==
    /\ mSigned # JUndefined =>
        /\ signBytes = canonicalize(DeleteProperty(mSigned, K_SIGNATURE))
        /\ SignedMessage(mSigned) = signBytes
        /\ ~MentionsSignature(signBytes)
    /\ mpc = "verified" =>
        /\ verifyBytes = canonicalize(DeleteProperty(received, K_SIGNATURE))
        /\ ~MentionsSignature(verifyBytes)
        /\ (tamper = "none" => verifyBytes = signBytes)

C5_Witness ==
    /\ mpc = "verified"
    /\ tamper = "none"
    /\ HasProperty(received, K_SIGNATURE)
    /\ verifyBytes = signBytes
    /\ Len(signBytes) > 0

\* C6: the @id of every manifest the builder produces has, as its authority,
\* derive(publicKey, algorithm) of the key that signed it.
C6_ManifestIdCarriesSignerAuthority ==
    mSigned # JUndefined =>
        LET id == HiriURI_parse(GetProperty(mSigned, K_ID).s)
        IN  /\ id.ok
            /\ id.value.authority = KeyAuthority[mKey]

C6_Witness ==
    /\ mSigned # JUndefined
    /\ mKey = NumKeys
    /\ HiriURI_parse(GetProperty(mSigned, K_ID).s).value.authority = KeyAuthority[NumKeys]
    /\ GetProperty(mSigned, K_SIGNATURE) # JUndefined


\* The manifest at hand with another signature on it, or none: the proof
\* value altered, a signature block with nothing in it, no signature block.
SignatureVariants(m) ==
    {SetNested(m, K_SIGNATURE, K_proofValue,
               FlipLast(GetProperty(GetProperty(m, K_SIGNATURE), K_proofValue))),
     SetProperty(m, K_SIGNATURE, JObj(<<>>)),
     DeleteProperty(m, K_SIGNATURE)}

\* C18: what the genesis check returns is decided by the version and by the
\* presence of a chain link, whatever the signature is and whether it
\* verifies; a manifest is accepted exactly when the genesis check and the
\* verification of the signature both pass.
C18_GenesisCheckIgnoresSignature ==
    (mpc = "verified" /\ genesisOut # "none") =>
        /\ genesisOut = "false" <=> (ReceivedVersion > 1 /\ ~ReceivedHasChain)
        /\ \A variant \in SignatureVariants(received) :
              isGenesisValid(variant) <=> genesisOut = "true"
        /\ acceptManifest(received, Keypairs[verifyKey].publicKey)
              <=> (genesisOut = "true" /\ verifyOut.value)

\* The genesis check fails on a manifest whose signature verifies.
C18_Witness ==
    /\ mpc = "verified"
    /\ genesisOut = "false"
    /\ verifyOut = [error |-> "none", value |-> TRUE]

\* The genesis check passes on a manifest whose signature does not verify.
GenesisPassesVerificationFails ==
    /\ mpc = "verified"
    /\ genesisOut = "true"
    /\ verifyOut = [error |-> "none", value |-> FALSE]

---------------------------------------------------------------------------
(* Properties of canonicalize *)

\* The opening quotes of the keys written in canonical bytes: a quote that
\* opens a string whose closing quote is followed by a colon.  (No string of
\* the documents given holds a quote, a brace or a bracket.)
ClosingQuote(bytes, i) ==
    CHOOSE j \in (i + 1)..Len(bytes) :
        bytes[j] = 34 /\ \A m \in (i + 1)..(j - 1) : bytes[m] # 34

KeyStarts(bytes) ==
    {i \in 1..Len(bytes) :
        /\ bytes[i] = 34
        /\ Cardinality({m \in 1..(i - 1) : bytes[m] = 34}) % 2 = 0
        /\ ClosingQuote(bytes, i) < Len(bytes)
        /\ bytes[ClosingQuote(bytes, i) + 1] = 58}

WrittenKey(bytes, i) == SubSeq(bytes, i + 1, ClosingQuote(bytes, i) - 1)

\* How many objects and arrays are open at byte i.
NestingDepth(bytes, i) ==
    Cardinality({m \in 1..i : bytes[m] \in {123, 91}})
        - Cardinality({m \in 1..i : bytes[m] \in {125, 93}})

\* The keys written at i and at j belong to the same object.
SameObject(bytes, i, j) ==
    /\ NestingDepth(bytes, i) = NestingDepth(bytes, j)
    /\ \A m \in i..j : NestingDepth(bytes, m) >= NestingDepth(bytes, i)

\* Order of the code points of two strings given as UTF-8 bytes, which is the
\* order of the bytes.
CodePointsBefore(a, b) ==
    \E n \in 1..Len(b) :
        /\ n <= Len(a) + 1
        /\ \A m \in 1..(n - 1) : a[m] = b[m]
        /\ (n > Len(a) \/ a[n] < b[n])

\* Order of the UTF-16 code units of two strings.
CodeUnitsBefore(a, b) ==
    \E n \in 1..Len(b) :
        /\ n <= Len(a) + 1
        /\ \A m \in 1..(n - 1) : a[m] = b[m]
        /\ (n > Len(a) \/ CharCode[a[n]] < CharCode[b[n]])

RECURSIVE KeysOf(_)
\* The keys of the objects of a document, at every level.
KeysOf(value) ==
    IF value.t = "obj"
    THEN {value.kv[i][1] : i \in 1..Len(value.kv)}
            \cup UNION {KeysOf(value.kv[i][2]) : i \in 1..Len(value.kv)}
    ELSE IF value.t = "arr" THEN UNION {KeysOf(value.el[i]) : i \in 1..Len(value.el)}
    ELSE {}

\* The key of the document whose bytes are written at i.
WrittenKeyOf(document, bytes, i) ==
    CHOOSE k \in KeysOf(document) : TextEncoder_encode(k) = WrittenKey(bytes, i)

KeysInCodePointOrder(bytes) ==
    \A i, j \in KeyStarts(bytes) :
        i < j /\ SameObject(bytes, i, j)
            => CodePointsBefore(WrittenKey(bytes, i), WrittenKey(bytes, j))

KeysInCodeUnitOrder(document, bytes) ==
    \A i, j \in KeyStarts(bytes) :
        i < j /\ SameObject(bytes, i, j)
            => CodeUnitsBefore(WrittenKeyOf(document, bytes, i),
                               WrittenKeyOf(document, bytes, j))

\* Both calls are made, and the copy differs from the document by
\* rearranged keys only.
KeysRearranged ==
    /\ cpc = "done"
    /\ \A e \in 1..Len(docEdits) : docEdits[e].kind = "keys"

\* C14, as stated: canonicalize gives the same bytes for a document and for
\* the document with the keys of any of its objects rearranged, and in the
\* bytes the keys of every object, at every level, are in code-point order.
C14_KeyOrderInvariantCodePointSorted ==
    KeysRearranged =>
        /\ canonA.error = "none" /\ canonB.error = "none"
        /\ canonA.bytes = canonB.bytes
        /\ KeysInCodePointOrder(canonA.bytes)

\* C14, amended: canonicalize gives the same bytes for a document and for the
\* document with the keys of any of its objects rearranged, and in the bytes
\* the keys written for every object, at every level, are in the order of
\* their UTF-16 code units.
C14_KeyOrderInvariantCodeUnitSorted ==
    KeysRearranged =>
        /\ canonA.error = "none" /\ canonB.error = "none"
        /\ canonA.bytes = canonB.bytes
        /\ KeysInCodeUnitOrder(docA, canonA.bytes)

\* Keys were rearranged at the top and in a nested object of a document that
\* has a key beyond the Basic Multilingual Plane.
C14_Witness ==
    /\ KeysRearranged
    /\ HasProperty(docA, K_GRINNING_FACE)
    /\ Object_keys(docB) # Object_keys(docA)
    /\ Object_keys(GetProperty(docB, K_b)) # Object_keys(GetProperty(docA, K_b))


\* Both calls are made, and the copy differs from the document in the order
\* of the elements of one array, whose elements are all different.
ElementsRearranged ==
    /\ cpc = "done"
    /\ docB # docA
    /\ \A e \in 1..Len(docEdits) :
          docEdits[e].kind = "elements" /\ docEdits[e].at = docEdits[1].at

\* C15: two documents that differ only in the order of the elements of an
\* array with distinct elements have different canonical bytes.
C15_ElementOrderChangesBytes ==
    ElementsRearranged => canonA.bytes # canonB.bytes

\* The document holds, at some level, a number that is not finite.
HasNonFinite(document) ==
    \E path \in Paths(document) : GetAt(document, path).t \in {"nan", "inf"}

\* C16: canonicalize fails with CanonicalizationError, and gives no bytes,
\* when the document holds a number that is not finite, at any level.
C16_NonFiniteNumberIsRejected ==
    cpc = "done" /\ HasNonFinite(docA) =>
        canonA.error = "CanonicalizationError" /\ canonA.bytes = <<>>

\* The copy differs from the document in the value or the presence of one
\* field.
FieldChanged ==
    /\ cpc = "done"
    /\ Len(docEdits) = 1
    /\ docEdits[1].kind \in {"value", "removed"}
    /\ docB # docA

\* C28: canonicalize loses no content: two documents that differ in the
\* value or the presence of a field, at any level, have different canonical
\* bytes.
C28_CanonicalizeLosesNoContent ==
    FieldChanged => canonA.bytes # canonB.bytes

\* What does hold: a change to a property of the document itself, or to a
\* nested property whose key is also a key of the document itself and that
\* sits in objects under such keys only, changes the canonical bytes, unless
\* it puts a number for a number that is not finite.
TopLevelKeys == {docA.kv[i][1] : i \in 1..Len(docA.kv)}

C28_TopLevelNamedFieldsAreKept ==
    (/\ FieldChanged
     /\ \A i \in 1..Len(docEdits[1].at) : docEdits[1].at[i] \in TopLevelKeys
     /\ ~HasNonFinite(docA))
        => canonA.bytes # canonB.bytes

\* A nested field whose key is no key of the document itself was changed or
\* removed, and the canonical bytes are the same.
NestedChangeLost ==
    /\ FieldChanged
    /\ Len(docEdits[1].at) = 2
    /\ docEdits[1].at[2] = K_n
    /\ canonA.bytes = canonB.bytes

\* verify was given a signature block and a key of the right form.
GivenWellFormed ==
    /\ sigGiven.proofEdit \in {"asSigned", "otherDigit"}
    /\ sigGiven.keyEdit = "whole"

\* verify was given the signature of the content it was given, made with the
\* keypair whose public key it was given.
GivenMatches ==
    /\ sigGiven.keyEdit = "whole"
    /\ GetProperty(sigGiven.signature, K_proofValue)
          = GetProperty(Signer_sign(sigGiven.content, Keypairs[sigGiven.key], Timestamp(1)),
                        K_proofValue)

\* C17: verify returns false, and throws nothing, when it is given a
\* well-formed signature and key that do not match; it throws InvalidSignature
\* exactly when its input is malformed (a key of the wrong length, a proof
\* value that cannot be decoded).
C17_MismatchIsFalseMalformedThrows ==
    spc = "verified" =>
        /\ sigOut.error \in {"none", "InvalidSignature"}
        /\ (sigOut.error = "InvalidSignature") <=> ~GivenWellFormed
        /\ GivenWellFormed => (sigOut.value <=> GivenMatches)

\* A well-formed signature was verified against another keypair's public key.
C17_Witness ==
    /\ spc = "verified"
    /\ GivenWellFormed
    /\ sigGiven.proofEdit = "asSigned"
    /\ sigGiven.content = sigSigned.content
    /\ sigGiven.key # sigSigned.key
    /\ sigOut = [error |-> "none", value |-> FALSE]


---------------------------------------------------------------------------
(* Properties of the Key Document *)

\* The entries of "hiri:activeKeys" and the signature block of a Key Document
ActiveKeys(document) == GetProperty(document, K_ACTIVE_KEYS).el

SignatureBlock(document) == GetProperty(document, K_SIGNATURE)

\* C19: a Key Document built for a keypair verifies against the public key
\* listed in its own active keys, and does not verify once that public key is
\* replaced by the public key of another keypair.
C19_KeyDocumentSelfCertifies ==
    kpc = "validated" =>
        /\ kdEdit.kind = "none" => kdOut = [error |-> "none", value |-> TRUE]
        /\ kdEdit.kind \in {"publicKey", "activeKey"} => kdOut.value = FALSE

\* A Key Document whose listed public key was replaced has been validated.
C19_Witness ==
    /\ kpc = "validated"
    /\ kdEdit.kind = "publicKey"
    /\ GetProperty(ActiveKeys(kdGiven)[1], K_publicKeyMultibase)
          # GetProperty(ActiveKeys(kdBuilt)[1], K_publicKeyMultibase)
    /\ GetProperty(ActiveKeys(kdGiven)[1], K_ID) = GetProperty(ActiveKeys(kdBuilt)[1], K_ID)
    /\ kdOut = [error |-> "none", value |-> FALSE]

\* C20: the Key Document the builder produces lists one active key, the key
\* of the keypair given; its lists of rotated and revoked keys are empty; its
\* policies are the default durations; its signature is made by that key and
\* names that key's identifier as its verification method.
C20_BuiltKeyDocumentShape ==
    kpc # "idle" =>
        /\ Len(ActiveKeys(kdBuilt)) = 1
        /\ GetProperty(ActiveKeys(kdBuilt)[1], K_publicKeyMultibase)
              = JStr(publicKeyMultibase(Keypairs[kdKey].publicKey))
        /\ GetProperty(ActiveKeys(kdBuilt)[1], K_ID)
              = JStr(verificationMethod(Keypairs[kdKey]))
        /\ GetProperty(kdBuilt, K_ROTATED_KEYS) = JArr(<<>>)
        /\ GetProperty(kdBuilt, K_REVOKED_KEYS) = JArr(<<>>)
        /\ GetProperty(kdBuilt, K_POLICIES)
              = JObj(<< <<K_gracePeriodAfterRotation, JStr(P180D)>>,
                        <<K_minimumKeyValidity, JStr(P365D)>> >>)
        /\ GetProperty(SignatureBlock(kdBuilt), K_verificationMethod)
              = GetProperty(ActiveKeys(kdBuilt)[1], K_ID)
        /\ Ed25519_verify(canonicalize(DeleteProperty(kdBuilt, K_SIGNATURE)),
                          Multibase_decode(
                              GetProperty(SignatureBlock(kdBuilt), K_proofValue).s),
                          Keypairs[kdKey].publicKey)

\* A Key Document was built for the last keypair at the last instant.
C20_Witness ==
    /\ kpc = "built"
    /\ kdKey = NumKeys
    /\ kdGiven = kdBuilt
    /\ GetProperty(ActiveKeys(kdBuilt)[1], K_validFrom) = JStr(Timestamp(MaxTimestamp))


---------------------------------------------------------------------------
(* Properties of authority derivation *)

\* C21: the same public key and algorithm name always give the same
\* authority, and every authority is "key:", the algorithm name, ":", and
\* exactly the first 20 characters of the Base58 text of the key's hash.
C21_DeriveIsDeterministicAndOfForm ==
    apc = "derived" =>
        \A i \in 1..Len(aCalls) :
            /\ \A j \in 1..Len(aCalls) :
                  (aCalls[i].publicKey = aCalls[j].publicKey
                      /\ aCalls[i].algorithm = aCalls[j].algorithm)
                    => aCalls[i].authority = aCalls[j].authority
            /\ LET head == KEY_SCHEME \o <<COLON>> \o aCalls[i].algorithm \o <<COLON>>
                   hash == Drop(aCalls[i].authority, Len(head))
                   b58  == Base58_encode(WebCrypto_digest(aCalls[i].publicKey))
               IN  /\ StartsWith(aCalls[i].authority, head)
                   /\ Len(hash) = 20
                   /\ hash = [n \in 1..20 |-> b58[n]]

\* derive was called twice for the same key and algorithm, the key one whose
\* hash starts with zero bytes.
C21_Witness ==
    /\ apc = "derived"
    /\ Len(aCalls) = 2
    /\ aCalls[1].publicKey = PublicKeyWithZeroHash
    /\ aCalls[2].publicKey = PublicKeyWithZeroHash
    /\ aCalls[1].algorithm = aCalls[2].algorithm
    /\ aCalls[1].authority = aCalls[2].authority


\* The text of the URI built was parsed, and what parse returned.
ParsedBack ==
    [authority |-> aParsed.value.authority, type |-> aParsed.value.type,
     identifier |-> aParsed.value.identifier]

VerificationMethodParsed ==
    /\ apc = "parsedMethod"
    /\ aParsed.ok
    /\ aParsed.value.identifier = KEYDOC_MAIN \o <<"#">> \o KEY_1

---------------------------------------------------------------------------
(* Properties of repeated and interleaved verification *)

---------------------------------------------------------------------------
(* Properties of the values handed out *)

\* Every text in a JSON value: the keys and the strings, at any depth.
RECURSIVE TextsOf(_)

TextsOf(value) ==
    IF value.t = "obj"
    THEN {value.kv[i][1] : i \in 1..Len(value.kv)}
            \cup UNION {TextsOf(value.kv[i][2]) : i \in 1..Len(value.kv)}
    ELSE IF value.t = "arr" THEN UNION {TextsOf(value.el[i]) : i \in 1..Len(value.el)}
    ELSE IF value.t = "str" THEN {value.s}
    ELSE {}

HasSubSeq(s, part) ==
    \E i \in 0..(Len(s) - Len(part)) : SubSeq(s, i + 1, i + Len(part)) = part

\* The ways the engine writes bytes into text, applied to the secret half of
\* a private key (its first 32 bytes; the other 32 are the public key) and
\* to the whole of it: base16, as in a proof value, and Base58, bare and
\* with the multicodec prefix, as in a publicKeyMultibase.
SecretTexts(key) ==
    LET seed == SubSeq(key.privateKey, 1, ED25519_SEED_LENGTH)
    IN  {Hex(seed), Base58_encode(seed), Base58_encode(<<237, 1>> \o seed),
         Base58_encode(key.privateKey)}

SecretTextsOfKeys == [k \in Keys |-> SecretTexts(Keypairs[k])]

Discloses(value, k) ==
    \E text \in TextsOf(value), secret \in SecretTextsOfKeys[k] :
        HasSubSeq(text, secret)

Outputs == {outSignature, outManifest, outKeyDocument} \ {JUndefined}

\* C23: no signature block, signed manifest or KeyDocument that the engine
\* hands out contains the private key bytes of the signing key, in any of the
\* encodings the engine writes bytes in.
C23_OutputsHoldNoPrivateKey ==
    opc = "keyed" => \A value \in Outputs : ~Discloses(value, outKey)

\* All three kinds of output have been produced with one key, and the proof
\* value of the signature block is there to be looked at.
C23_Witness ==
    /\ opc = "keyed"
    /\ Cardinality(Outputs) = 3
    /\ GetProperty(outSignature, K_proofValue).t = "str"
    /\ GetProperty(outManifest, K_SIGNATURE).t = "obj"
    /\ GetProperty(outKeyDocument, K_SIGNATURE).t = "obj"

---------------------------------------------------------------------------
(* Properties of the content hash *)

contentHashOf(manifest) == GetProperty(GetProperty(manifest, K_CONTENT), K_hash)

\* C24: the content hash in a manifest is the hash of the canonical bytes of
\* the content alone: two manifests built from the same content carry the
\* same content hash, whatever their versions, chain links, timestamps and
\* signing keys.
C24_ContentHashIsOfContentAlone ==
    /\ hpc \in {"first", "second"} =>
          contentHashOf(hFirst.manifest)
              = JStr(HashRegistry_hash(algos, canonicalize(hContent), SHA256).hash)
    /\ hpc = "second" =>
          contentHashOf(hSecond.manifest) = contentHashOf(hFirst.manifest)

\* The second manifest differs from the first in version, chain link,
\* timestamp and signing key at once, and so in its signature.
C24_Witness ==
    /\ hpc = "second"
    /\ hSecond.key # hFirst.key
    /\ hSecond.version # hFirst.version
    /\ hSecond.withChain # hFirst.withChain
    /\ hSecond.timestamp # hFirst.timestamp
    /\ GetProperty(hSecond.manifest, K_SIGNATURE) # GetProperty(hFirst.manifest, K_SIGNATURE)
    /\ contentHashOf(hFirst.manifest).t = "str"

---------------------------------------------------------------------------
(* Properties of create and update *)

versionOf(manifest) == GetProperty(manifest, K_VERSION).n

\* C25: after any sequence of create and update operations no manifest
\* produced has a version above 1 without a chain link; each update yields a
\* manifest with a higher version than the one it updates and a chain link
\* to that one.
C25_UpdatesAreChained ==
    /\ \A i \in 1..Len(produced) :
          versionOf(produced[i].manifest) > 1
              => GetProperty(produced[i].manifest, K_CHAIN) # JUndefined
    /\ \A i \in 2..Len(produced) :
          /\ versionOf(produced[i].manifest) > versionOf(produced[i - 1].manifest)
          /\ GetProperty(produced[i].manifest, K_CHAIN)
                = chainLinkTo(produced[i - 1].manifest)

\* A genesis manifest without a chain link has been updated twice, the
\* content changing each time.
C25_Witness ==
    /\ Len(produced) = 3
    /\ GetProperty(produced[1].manifest, K_CHAIN) = JUndefined
    /\ versionOf(produced[3].manifest) = 3
    /\ contentHashOf(produced[1].manifest) # contentHashOf(produced[2].manifest)
    /\ contentHashOf(produced[2].manifest) # contentHashOf(produced[3].manifest)

---------------------------------------------------------------------------
(* Properties of a pending hash call *)

\* C27: a hash call that was suspended in the provider returns the digest,
\* whole, of the algorithm that was registered under its prefix when the call
\* was made, whatever has been registered under that prefix since.
C27_PendingHashKeepsItsAlgorithm ==
    /\ hashCall.pc = "returned" =>
          /\ hashCall.prefix \in DOMAIN atCall
          /\ hashCall.out = HashAlgorithm_hash(atCall[hashCall.prefix], hashCall.content)
    /\ hashCall.pc = "thrown" => hashCall.prefix \notin DOMAIN atCall

\* The call has returned, and while it was pending another algorithm was
\* registered under its prefix, one that gives another digest.
C27_Witness ==
    /\ hashCall.pc = "returned"
    /\ algos[hashCall.prefix] # atCall[hashCall.prefix]
    /\ hashCall.out # HashAlgorithm_hash(algos[hashCall.prefix], hashCall.content)

---------------------------------------------------------------------------
(* Properties of genesis validation for versions below 1 *)

\* C29: genesis validation never reports as valid a manifest whose version is
\* below 1, whether the manifest has a chain link or not.
C29_VersionBelowOneIsNeverValid ==
    (genesisOut # "none" /\ GetProperty(received, K_VERSION).n < 1)
        => genesisOut = "false"

\* A manifest with version 0 and no chain link was reported valid.
VersionZeroReportedValid ==
    /\ genesisOut = "true"
    /\ GetProperty(received, K_VERSION).n = 0
    /\ GetProperty(received, K_CHAIN) = JUndefined

=============================================================================
